---- MODULE Spec2Model ----
(***************************************************************************)
(* chat-to-calendar: the schedule validator (src/lib/schema.ts) and the    *)
(* calendar-file encoder (src/lib/ics.ts).                                 *)
(*                                                                         *)
(* A JavaScript string is a sequence of one-character strings.  A Date is  *)
(* its time value in seconds, or NaN for an Invalid Date.                  *)
(***************************************************************************)
EXTENDS Integers, Sequences, FiniteSets, TLC

VARIABLES schedule, hostOffset, now, validation, ics, line, folded, found,
          plainText, otherText, escaped, uidArgs, uids,
          linkEvent, linkTimezones, hostZone, links, calls,
          request, apiKey, apiOutcome, handled, ui,
          copiedIndex, timers, writes, clipboard, copyLog

\* the variables of the calls of escapeICSText
escapeVars == <<plainText, otherText, escaped>>

\* the variables of the calls of generateUID
uidVars == <<uidArgs, uids>>

\* the variables of the calls of generateAppleCalendarLink
linkVars == <<linkEvent, linkTimezones, hostZone, links>>

\* the variables of the POST handler and of the page
routeVars == <<request, apiKey, apiOutcome, handled, ui>>

\* the variables of the Copy Link buttons of the page
copyVars == <<copiedIndex, timers, writes, clipboard, copyLog>>

\* the variables that the validator, the encoder and foldLine leave alone
otherVars == <<escapeVars, uidVars, linkVars, calls, routeVars, copyVars>>

vars ==
    <<schedule, hostOffset, now, validation, ics, line, folded, found,
      otherVars>>

----------------------------------------------------------------------------
(* Bounds of the model *)

\* longest events list of a validated schedule
MaxEvents == 4

\* longest events list handed to findOverlappingEvents in every order
MaxPermEvents == 3

\* longest events list of an encoded schedule
MaxIcsEvents == 2

\* longest line handed to foldLine on its own
MaxLineLen == 230

\* length of the long title, description and timezone texts
LongLen == 80

\* readings of the millisecond clock
MaxClock == 2

\* longest text handed to escapeICSText on its own
MaxTextLen == 4

\* longest texts of the pairs whose escaped values are compared
MaxPairLen == 2

\* longest events list of the schedules whose event blocks are read back
MaxBlockEvents == 2

\* longest text of the fields of the single events that are encoded
MaxFieldLen == 2

\* largest position of an event handed to generateUID on its own
MaxUidIndex == 1

\* longest events list of the schedules that the functions are invoked on
\* twice
MaxRepeatEvents == 1

\* longest events list of the schedules that the completion API replies
MaxReplyEvents == 2

\* most clicks on Copy Link buttons
MaxCopies == 3

----------------------------------------------------------------------------
(* Strings *)

CR == "\r"
LF == "\n"
SP == " "
CRLF == <<CR, LF>>

Digits == <<"0", "1", "2", "3", "4", "5", "6", "7", "8", "9">>

DigitSet == {"0", "1", "2", "3", "4", "5", "6", "7", "8", "9"}

IsDigit(c) == c \in DigitSet

DigitTable ==
    ("0" :> 0) @@ ("1" :> 1) @@ ("2" :> 2) @@ ("3" :> 3) @@ ("4" :> 4)
    @@ ("5" :> 5) @@ ("6" :> 6) @@ ("7" :> 7) @@ ("8" :> 8) @@ ("9" :> 9)

DigitVal(c) == DigitTable[c]

Letters ==
    {"a", "b", "c", "d", "e", "f", "g", "h", "i", "j", "k", "l", "m",
     "n", "o", "p", "q", "r", "s", "t", "u", "v", "w", "x", "y", "z",
     "A", "B", "C", "D", "E", "F", "G", "H", "I", "J", "K", "L", "M",
     "N", "O", "P", "Q", "R", "S", "T", "U", "V", "W", "X", "Y", "Z"}

\* String.prototype.substring(from) and substring(0, n)
Drop(s, n) == IF n >= Len(s) THEN <<>> ELSE SubSeq(s, n + 1, Len(s))

Take(s, n) == IF n >= Len(s) THEN s ELSE SubSeq(s, 1, n)

StartsWith(s, p) == Len(s) >= Len(p) /\ SubSeq(s, 1, Len(p)) = p

EndsWith(s, p) ==
    Len(s) >= Len(p) /\ SubSeq(s, Len(s) - Len(p) + 1, Len(s)) = p

Repeat(c, n) == [i \in 1..n |-> c]

\* Array.prototype.join(sep)
RECURSIVE Join(_, _)
Join(ss, sep) ==
    IF ss = <<>> THEN <<>>
    ELSE IF Len(ss) = 1 THEN ss[1]
    ELSE ss[1] \o sep \o Join(Tail(ss), sep)

\* String(n) for a natural number n
RECURSIVE NumStr(_)
NumStr(n) ==
    IF n < 10 THEN <<Digits[n + 1]>>
    ELSE NumStr(n \div 10) \o <<Digits[(n % 10) + 1]>>

\* the positions at which a CRLF starts
BreaksOf(s) == {i \in 1..(Len(s) - 1) : s[i] = CR /\ s[i + 1] = LF}

\* the text split at every CRLF, as String.prototype.split('\r\n') does
SplitCRLF(s) ==
    LET breaks == BreaksOf(s)
        n == Cardinality(breaks)
        \* the k-th break, 0 before the text and Len(s) + 1 after it
        at[k \in 0..(n + 1)] ==
            IF k = 0 THEN 0 - 1
            ELSE IF k = n + 1 THEN Len(s) + 1
            ELSE CHOOSE i \in breaks :
                     Cardinality({j \in breaks : j < i}) = k - 1
    IN [k \in 1..(n + 1) |-> SubSeq(s, at[k - 1] + 2, at[k] - 1)]

----------------------------------------------------------------------------
(* Dates *)

NaN == 0 - 1

\* the relational operators of JavaScript on time values: false with a NaN
Less(a, b) == a # NaN /\ b # NaN /\ a < b

Greater(a, b) == Less(b, a)

Num2(s, i) == 10 * DigitVal(s[i]) + DigitVal(s[i + 1])

Num4(s, i) == 100 * Num2(s, i) + Num2(s, i + 2)

\* the calendar fields "YYYY-MM-DDTHH:mm" that both date forms start with
HasDateFields(s) ==
    /\ Len(s) >= 16
    /\ \A i \in {1, 2, 3, 4, 6, 7, 9, 10, 12, 13, 15, 16} : IsDigit(s[i])
    /\ s[5] = "-" /\ s[8] = "-" /\ s[11] = "T" /\ s[14] = ":"
    /\ Num2(s, 6) \in 1..12
    /\ Num2(s, 9) \in 1..31
    /\ Num2(s, 12) \in 0..23
    /\ Num2(s, 15) \in 0..59

\* the local date-time form "YYYY-MM-DDTHH:mm"
IsLocalDateTime(s) == Len(s) = 16 /\ HasDateFields(s)

\* the form Date.prototype.toISOString() writes, "YYYY-MM-DDTHH:mm:ss.sssZ"
IsISOInstant(s) ==
    /\ Len(s) = 24
    /\ HasDateFields(s)
    /\ s[17] = ":" /\ s[20] = "." /\ s[24] = "Z"
    /\ \A i \in {18, 19, 21, 22, 23} : IsDigit(s[i])
    /\ Num2(s, 18) \in 0..59

\* seconds of a calendar reading; every month counts 31 days, which keeps
\* the order of the readings and is exact inside a month
CivilSeconds(y, mo, d, h, mi, sec) ==
    (((((y - 2000) * 12 + (mo - 1)) * 31 + (d - 1)) * 24 + h) * 60 + mi) * 60
    + sec

\* new Date(text): a text without offset is read as local time, off being
\* the host's getTimezoneOffset() (the minutes to add to local time to get
\* UTC); a text ending in Z is read as UTC; any other text is an Invalid Date
NewDate(s, off) ==
    IF IsLocalDateTime(s)
    THEN CivilSeconds(Num4(s, 1), Num2(s, 6), Num2(s, 9),
                      Num2(s, 12), Num2(s, 15), 0) + 60 * off
    ELSE IF IsISOInstant(s)
    THEN CivilSeconds(Num4(s, 1), Num2(s, 6), Num2(s, 9),
                      Num2(s, 12), Num2(s, 15), Num2(s, 18))
    ELSE NaN

\* arithmetic on a number that may be NaN
Plus(a, b) == IF a = NaN THEN NaN ELSE a + b

\* the getUTC* readers of a Date: NaN for an Invalid Date
UTCFullYear(t) == IF t = NaN THEN NaN ELSE 2000 + t \div (12 * 31 * 86400)

UTCMonth(t) == IF t = NaN THEN NaN ELSE (t \div (31 * 86400)) % 12

UTCDate(t) == IF t = NaN THEN NaN ELSE ((t \div 86400) % 31) + 1

UTCHours(t) == IF t = NaN THEN NaN ELSE (t \div 3600) % 24

UTCMinutes(t) == IF t = NaN THEN NaN ELSE (t \div 60) % 60

UTCSeconds(t) == IF t = NaN THEN NaN ELSE t % 60

\* String(n) for a number that may be NaN
String(n) == IF n = NaN THEN <<"N", "a", "N">> ELSE NumStr(n)

\* String.prototype.padStart(width, '0')
RECURSIVE PadStart(_, _)
PadStart(s, width) ==
    IF Len(s) >= width THEN s ELSE PadStart(<<"0">> \o s, width)

\* the instant the document is generated at, 2026-11-06T09:27:00Z, and the
\* milliseconds the clock has advanced since
GenerationSecond == CivilSeconds(2026, 11, 6, 9, 27, 0)

\* Date.now() as the text a template string writes: milliseconds since the
\* epoch, 1793957220000 + clock
DateNowText(clock) ==
    <<"1", "7", "9", "3", "9", "5", "7", "2", "2", "0">>
    \o PadStart(NumStr(clock), 3)

\* Date.prototype.toISOString() raises a RangeError on an Invalid Date
toISOStringRaises(t) == t = NaN

toISOString(t, ms) ==
    String(UTCFullYear(t)) \o <<"-">> \o PadStart(String(UTCMonth(t) + 1), 2)
    \o <<"-">> \o PadStart(String(UTCDate(t)), 2)
    \o <<"T">> \o PadStart(String(UTCHours(t)), 2)
    \o <<":">> \o PadStart(String(UTCMinutes(t)), 2)
    \o <<":">> \o PadStart(String(UTCSeconds(t)), 2)
    \o <<".">> \o PadStart(NumStr(ms), 3) \o <<"Z">>

\* a value that is no text: a field that is missing from an object
Undefined == <<"undefined">>

\* an optional field of an object: absent, or present with a value
Absent == [present |-> FALSE, value |-> <<>>]

Present(text) == [present |-> TRUE, value |-> text]

\* the value null
Null == [null |-> TRUE]

\* String(value), as a template string and URLSearchParams convert a value
ToText(v) ==
    IF v = Undefined THEN <<"u", "n", "d", "e", "f", "i", "n", "e", "d">>
    ELSE v

\* a host time zone: the minutes its standard time is behind UTC, and
\* whether it keeps daylight saving time (between 2026-03-08T02:00 standard
\* time and 2026-11-01T02:00 daylight time the clocks are one hour ahead)
UTCZone == [offset |-> 0, dst |-> FALSE]

NewYorkZone == [offset |-> 300, dst |-> TRUE]

DstStart(zone) == CivilSeconds(2026, 3, 8, 2, 0, 0) + 60 * zone.offset

DstEnd(zone) == CivilSeconds(2026, 11, 1, 2, 0, 0) + 60 * (zone.offset - 60)

\* getTimezoneOffset() of the host at an instant
OffsetAt(zone, t) ==
    IF zone.dst /\ DstStart(zone) <= t /\ t < DstEnd(zone)
    THEN zone.offset - 60
    ELSE zone.offset

\* new Date(text) on a host: a local date-time is the instant at which the
\* host's clock shows it; a reading that the clock skips or shows twice is
\* taken with the offset in force before the transition
NewLocalDate(s, zone) ==
    IF s # Undefined /\ IsLocalDateTime(s)
    THEN LET local == CivilSeconds(Num4(s, 1), Num2(s, 6), Num2(s, 9),
                                   Num2(s, 12), Num2(s, 15), 0)
             standard == local + 60 * zone.offset
             daylight == local + 60 * (zone.offset - 60)
             isStandard == OffsetAt(zone, standard) = zone.offset
             isDaylight == OffsetAt(zone, daylight) = zone.offset - 60
         IN IF isStandard /\ ~isDaylight THEN standard
            ELSE IF isDaylight /\ ~isStandard THEN daylight
            ELSE IF isDaylight THEN daylight
            ELSE standard
    ELSE IF s # Undefined /\ IsISOInstant(s)
    THEN CivilSeconds(Num4(s, 1), Num2(s, 6), Num2(s, 9),
                      Num2(s, 12), Num2(s, 15), Num2(s, 18))
    ELSE NaN

\* the instant as the host's clock shows it: what the local readers of a
\* Date (getFullYear, getMonth, getDate, getHours, getMinutes) read
LocalReading(t, zone) == IF t = NaN THEN NaN ELSE t - 60 * OffsetAt(zone, t)

----------------------------------------------------------------------------
(* Text of the messages *)

TimezoneRequired ==
    <<"T", "i", "m", "e", "z", "o", "n", "e", " ", "i", "s", " ",
      "r", "e", "q", "u", "i", "r", "e", "d">>

TimingErrorText(pos, title) ==
    <<"E", "v", "e", "n", "t", " ">> \o NumStr(pos) \o <<" ", "(">> \o title
    \o <<")", ":", " ", "e", "n", "d", " ", "t", "i", "m", "e", " ",
         "m", "u", "s", "t", " ", "b", "e", " ", "a", "f", "t", "e", "r", " ",
         "s", "t", "a", "r", "t", " ", "t", "i", "m", "e">>

OverlapErrorText(title1, title2) ==
    <<"E", "v", "e", "n", "t", "s", " ", "o", "v", "e", "r", "l", "a", "p",
      ":", " ", "\"">> \o title1
    \o <<"\"", " ", "a", "n", "d", " ", "\"">> \o title2 \o <<"\"">>

----------------------------------------------------------------------------
(* src/lib/schema.ts *)

\* end >= start in the place of end > start
isValidEventTimingNotStrict(event, off) ==
    LET start == NewDate(event.start_local, off)
        end == NewDate(event.end_local, off)
    IN start # NaN /\ end # NaN /\ end >= start

isValidEventTiming(event, off) ==
    LET start == NewDate(event.start_local, off)
        end == NewDate(event.end_local, off)
    IN Greater(end, start)

\* the second comparison admits equal instants: the answer depends on the
\* order of the two events
eventsOverlapOneSided(event1, event2, off) ==
    LET start1 == NewDate(event1.start_local, off)
        end1 == NewDate(event1.end_local, off)
        start2 == NewDate(event2.start_local, off)
        end2 == NewDate(event2.end_local, off)
    IN /\ start1 # NaN /\ end1 # NaN /\ start2 # NaN /\ end2 # NaN
       /\ start1 < end2 /\ start2 <= end1

\* closed intervals in the place of half-open ones
eventsOverlapClosed(event1, event2, off) ==
    LET start1 == NewDate(event1.start_local, off)
        end1 == NewDate(event1.end_local, off)
        start2 == NewDate(event2.start_local, off)
        end2 == NewDate(event2.end_local, off)
    IN /\ start1 # NaN /\ end1 # NaN /\ start2 # NaN /\ end2 # NaN
       /\ start1 <= end2 /\ start2 <= end1

eventsOverlap(event1, event2, off) ==
    LET start1 == NewDate(event1.start_local, off)
        end1 == NewDate(event1.end_local, off)
        start2 == NewDate(event2.start_local, off)
        end2 == NewDate(event2.end_local, off)
    IN Less(start1, end2) /\ Less(start2, end1)

\* the two nested loops; indices are 0-based as in the source
RECURSIVE OverlapLoop(_, _, _, _)
OverlapLoop(events, i, j, off) ==
    IF i >= Len(events) THEN <<>>
    ELSE IF j >= Len(events) THEN OverlapLoop(events, i + 1, i + 2, off)
    ELSE (IF eventsOverlap(events[i + 1], events[j + 1], off)
          THEN <<(<<i, j>>)>> ELSE <<>>)
         \o OverlapLoop(events, i, j + 1, off)

\* the pairs in the order j ascending, then i ascending
RECURSIVE OverlapLoopByColumn(_, _, _, _)
OverlapLoopByColumn(events, i, j, off) ==
    IF j >= Len(events) THEN <<>>
    ELSE IF i >= j THEN OverlapLoopByColumn(events, 0, j + 1, off)
    ELSE (IF eventsOverlap(events[i + 1], events[j + 1], off)
          THEN <<(<<i, j>>)>> ELSE <<>>)
         \o OverlapLoopByColumn(events, i + 1, j, off)

findOverlappingEventsByColumn(events, off) ==
    OverlapLoopByColumn(events, 0, 1, off)

findOverlappingEvents(events, off) == OverlapLoop(events, 0, 1, off)

RECURSIVE TimingErrors(_, _, _)
TimingErrors(events, index, off) ==
    IF index >= Len(events) THEN <<>>
    ELSE (IF ~isValidEventTiming(events[index + 1], off)
          THEN <<TimingErrorText(index + 1, events[index + 1].title)>>
          ELSE <<>>)
         \o TimingErrors(events, index + 1, off)

OverlapErrors(events, overlaps) ==
    [k \in 1..Len(overlaps) |->
        OverlapErrorText(events[overlaps[k][1] + 1].title,
                         events[overlaps[k][2] + 1].title)]

\* the checks stop at the first kind of violation found
validateScheduleShortCircuit(s, off) ==
    LET tzErrors == IF s.timezone = <<>> \/ s.timezone = Undefined
                    THEN <<TimezoneRequired>> ELSE <<>>
        timing == TimingErrors(s.events, 0, off)
        overlaps == findOverlappingEvents(s.events, off)
        errors == IF tzErrors # <<>> THEN tzErrors
                  ELSE IF timing # <<>> THEN timing
                  ELSE OverlapErrors(s.events, overlaps)
    IN [raised |-> FALSE, isValid |-> Len(errors) = 0, errors |-> errors]

\* reading .title of schedule.events[i] raises a TypeError when i is not an
\* index of the list (as reading .timezone of null does)
ReadsOutside(events, overlaps) ==
    \E k \in 1..Len(overlaps) :
        \/ overlaps[k][1] \notin 0..(Len(events) - 1)
        \/ overlaps[k][2] \notin 0..(Len(events) - 1)

validateSchedule(s, off) ==
    LET tzErrors == IF s.timezone = <<>> \/ s.timezone = Undefined
                    THEN <<TimezoneRequired>> ELSE <<>>
        overlaps == findOverlappingEvents(s.events, off)
        errors == tzErrors \o TimingErrors(s.events, 0, off)
                  \o OverlapErrors(s.events, overlaps)
    IN IF s = Null \/ ReadsOutside(s.events, overlaps)
       THEN [raised |-> TRUE, isValid |-> FALSE, errors |-> <<>>]
       ELSE [raised |-> FALSE, isValid |-> Len(errors) = 0, errors |-> errors]

----------------------------------------------------------------------------
(* src/lib/ics.ts *)

formatDateForICS(localDateTime, off) ==
    LET date == NewDate(localDateTime, off)
        year == UTCFullYear(date)
        month == PadStart(String(Plus(UTCMonth(date), 1)), 2)
        day == PadStart(String(UTCDate(date)), 2)
        hours == PadStart(String(UTCHours(date)), 2)
        minutes == PadStart(String(UTCMinutes(date)), 2)
        seconds == PadStart(String(UTCSeconds(date)), 2)
    IN String(year) \o month \o day \o <<"T">> \o hours \o minutes \o seconds
       \o <<"Z">>

\* String.prototype.replace(/c/g, rep) for a one-character pattern: every
\* occurrence is replaced, the two halves of the text independently
RECURSIVE ReplaceAll(_, _, _)
ReplaceAll(s, c, rep) ==
    IF Len(s) = 0 THEN <<>>
    ELSE IF Len(s) = 1 THEN (IF s[1] = c THEN rep ELSE s)
    ELSE LET half == Len(s) \div 2
         IN ReplaceAll(SubSeq(s, 1, half), c, rep)
            \o ReplaceAll(SubSeq(s, half + 1, Len(s)), c, rep)

\* the newline is left as it is: only the three characters that the comment
\* above the function names are replaced
escapeICSTextNoNewline(t) ==
    ReplaceAll(
        ReplaceAll(
            ReplaceAll(t, "\\", <<"\\", "\\">>),
            ";", <<"\\", ";">>),
        ",", <<"\\", ",">>)

\* the backslash is replaced last: the backslashes written by the other
\* replacements are doubled
escapeICSTextBackslashLast(t) ==
    ReplaceAll(
        ReplaceAll(
            ReplaceAll(
                ReplaceAll(t, ";", <<"\\", ";">>),
                ",", <<"\\", ",">>),
            LF, <<"\\", "n">>),
        "\\", <<"\\", "\\">>)

escapeICSText(t) ==
    ReplaceAll(
        ReplaceAll(
            ReplaceAll(
                ReplaceAll(t, "\\", <<"\\", "\\">>),
                ";", <<"\\", ";">>),
            ",", <<"\\", ",">>),
        LF, <<"\\", "n">>)

\* the while loop of foldLine: the continuation chunks of what remains
RECURSIVE FoldRemaining(_)
FoldRemaining(remaining) ==
    IF Len(remaining) > 0
    THEN <<(<<SP>> \o Take(remaining, 74))>>
         \o FoldRemaining(Drop(remaining, 74))
    ELSE <<>>

\* continuation chunks of 75 characters of the line: the space is not counted
RECURSIVE FoldRemainingWide(_)
FoldRemainingWide(remaining) ==
    IF Len(remaining) > 0
    THEN <<(<<SP>> \o Take(remaining, 75))>>
         \o FoldRemainingWide(Drop(remaining, 75))
    ELSE <<>>

foldLineWide(l) ==
    IF Len(l) <= 75 THEN l
    ELSE Join(<<Take(l, 75)>> \o FoldRemainingWide(Drop(l, 75)), CRLF)

\* the loop advances by 75 characters while it writes 74 of them
RECURSIVE FoldRemainingSkipping(_)
FoldRemainingSkipping(remaining) ==
    IF Len(remaining) > 0
    THEN <<(<<SP>> \o Take(remaining, 74))>>
         \o FoldRemainingSkipping(Drop(remaining, 75))
    ELSE <<>>

foldLineSkipping(l) ==
    IF Len(l) <= 75 THEN l
    ELSE Join(<<Take(l, 75)>> \o FoldRemainingSkipping(Drop(l, 75)), CRLF)

foldLine(l) ==
    IF Len(l) <= 75 THEN l
    ELSE Join(<<Take(l, 75)>> \o FoldRemaining(Drop(l, 75)), CRLF)

IsAlnum(c) == c \in Letters \/ IsDigit(c)

\* String.prototype.replace(/[^a-zA-Z0-9]/g, '')
StripNonAlnum(s) == SelectSeq(s, IsAlnum)

generateUID(event, index, clock) ==
    LET timestamp == DateNowText(clock)
        hash == StripNonAlnum(event.title \o <<"-">> \o event.start_local
                              \o <<"-">> \o NumStr(index))
    IN timestamp \o <<"-">> \o hash
       \o <<"@", "c", "h", "a", "t", "-", "t", "o", "-", "c", "a", "l", "e",
            "n", "d", "a", "r">>

BeginVEvent == <<"B", "E", "G", "I", "N", ":", "V", "E", "V", "E", "N", "T">>

EndVEvent == <<"E", "N", "D", ":", "V", "E", "V", "E", "N", "T">>

\* an optional field is used when it is present and not the empty string
Truthy(field) == field.present /\ field.value # <<>>

\* the time stamp is taken from the event's start, which may be unparseable
createVEventRaisesOnStart(event, index, clock, off) ==
    toISOStringRaises(NewDate(event.start_local, off))

\* createVEvent raises when one of its calls raises: toISOString of the
\* Date it has just constructed
createVEventRaises(event, index, clock, off) ==
    toISOStringRaises(GenerationSecond)

\* an optional field is written whenever it is defined, the empty string
\* included
createVEventWhenDefined(event, index, clock, off) ==
    <<BeginVEvent,
      <<"U", "I", "D", ":">> \o generateUID(event, index, clock),
      <<"D", "T", "S", "T", "A", "M", "P", ":">>
          \o formatDateForICS(toISOString(GenerationSecond, clock), off),
      <<"D", "T", "S", "T", "A", "R", "T", ":">>
          \o formatDateForICS(event.start_local, off),
      <<"D", "T", "E", "N", "D", ":">>
          \o formatDateForICS(event.end_local, off),
      <<"S", "U", "M", "M", "A", "R", "Y", ":">>
          \o escapeICSText(event.title)>>
    \o (IF event.description.present
        THEN <<(<<"D", "E", "S", "C", "R", "I", "P", "T", "I", "O", "N", ":">>
                \o escapeICSText(event.description.value))>>
        ELSE <<>>)
    \o (IF event.location.present
        THEN <<(<<"L", "O", "C", "A", "T", "I", "O", "N", ":">>
                \o escapeICSText(event.location.value))>>
        ELSE <<>>)
    \o <<EndVEvent>>

createVEvent(event, index, clock, off) ==
    <<BeginVEvent,
      <<"U", "I", "D", ":">> \o generateUID(event, index, clock),
      <<"D", "T", "S", "T", "A", "M", "P", ":">>
          \o formatDateForICS(toISOString(GenerationSecond, clock), off),
      <<"D", "T", "S", "T", "A", "R", "T", ":">>
          \o formatDateForICS(event.start_local, off),
      <<"D", "T", "E", "N", "D", ":">>
          \o formatDateForICS(event.end_local, off),
      <<"S", "U", "M", "M", "A", "R", "Y", ":">>
          \o escapeICSText(event.title)>>
    \o (IF Truthy(event.description)
        THEN <<(<<"D", "E", "S", "C", "R", "I", "P", "T", "I", "O", "N", ":">>
                \o escapeICSText(event.description.value))>>
        ELSE <<>>)
    \o (IF Truthy(event.location)
        THEN <<(<<"L", "O", "C", "A", "T", "I", "O", "N", ":">>
                \o escapeICSText(event.location.value))>>
        ELSE <<>>)
    \o <<EndVEvent>>

BeginVCalendar ==
    <<"B", "E", "G", "I", "N", ":", "V", "C", "A", "L", "E", "N", "D", "A",
      "R">>

EndVCalendar ==
    <<"E", "N", "D", ":", "V", "C", "A", "L", "E", "N", "D", "A", "R">>

VersionLine == <<"V", "E", "R", "S", "I", "O", "N", ":", "2", ".", "0">>

ProdIdLine ==
    <<"P", "R", "O", "D", "I", "D", ":", "-", "/", "/", "C", "h", "a", "t",
      " ", "t", "o", " ", "C", "a", "l", "e", "n", "d", "a", "r", "/",
      "/", "E", "N">>

CalScaleLine ==
    <<"C", "A", "L", "S", "C", "A", "L", "E", ":", "G", "R", "E", "G", "O",
      "R", "I", "A", "N">>

MethodLine ==
    <<"M", "E", "T", "H", "O", "D", ":", "P", "U", "B", "L", "I", "S", "H">>

TimezonePrefix ==
    <<"X", "-", "W", "R", "-", "T", "I", "M", "E", "Z", "O", "N", "E", ":">>

\* the lines array of generateICS before folding
RECURSIVE EventLines(_, _, _, _)
EventLines(events, index, clock, off) ==
    IF index >= Len(events) THEN <<>>
    ELSE createVEvent(events[index + 1], index, clock, off)
         \o EventLines(events, index + 1, clock, off)

\* the timezone line is written after the events
icsLinesTimezoneLast(s, clock, off) ==
    <<BeginVCalendar, VersionLine, ProdIdLine, CalScaleLine, MethodLine>>
    \o EventLines(s.events, 0, clock, off)
    \o <<TimezonePrefix \o s.timezone, EndVCalendar>>

\* the header names the calendar after the time of the call
icsLinesStamped(s, clock, off) ==
    <<BeginVCalendar, VersionLine, ProdIdLine, CalScaleLine, MethodLine,
      <<"X", "-", "W", "R", "-", "C", "A", "L", "N", "A", "M", "E", ":">>
          \o DateNowText(clock),
      TimezonePrefix \o s.timezone>>
    \o EventLines(s.events, 0, clock, off)
    \o <<EndVCalendar>>

icsLines(s, clock, off) ==
    <<BeginVCalendar, VersionLine, ProdIdLine, CalScaleLine, MethodLine,
      TimezonePrefix \o s.timezone>>
    \o EventLines(s.events, 0, clock, off)
    \o <<EndVCalendar>>

generateICS(s, clock, off) ==
    LET lines == icsLines(s, clock, off)
        foldedLines == [k \in 1..Len(lines) |-> foldLine(lines[k])]
    IN IF \E k \in 1..Len(s.events) :
              createVEventRaises(s.events[k], k - 1, clock, off)
       THEN [raised |-> TRUE, text |-> <<>>]
       ELSE [raised |-> FALSE, text |-> Join(foldedLines, CRLF)]

----------------------------------------------------------------------------
(* src/lib/appleLink.ts *)

\* formatDateForApple reads the Date with the local readers; the year is
\* written as it is, the other fields padded to two digits
formatDateForApple(localDateTime, zone) ==
    LET date == LocalReading(NewLocalDate(localDateTime, zone), zone)
        year == UTCFullYear(date)
        month == PadStart(String(Plus(UTCMonth(date), 1)), 2)
        day == PadStart(String(UTCDate(date)), 2)
        hours == PadStart(String(UTCHours(date)), 2)
        minutes == PadStart(String(UTCMinutes(date)), 2)
        seconds == <<"0", "0">>
    IN String(year) \o month \o day \o <<"T">> \o hours \o minutes \o seconds

HexDigits ==
    <<"0", "1", "2", "3", "4", "5", "6", "7", "8", "9",
      "A", "B", "C", "D", "E", "F">>

\* the code of a character that is no letter and no digit
CharCode ==
    (LF :> 10) @@ (CR :> 13) @@ (" " :> 32) @@ ("!" :> 33) @@ ("\"" :> 34)
    @@ ("#" :> 35) @@ ("$" :> 36) @@ ("%" :> 37) @@ ("&" :> 38)
    @@ ("'" :> 39) @@ ("(" :> 40) @@ (")" :> 41) @@ ("*" :> 42)
    @@ ("+" :> 43) @@ ("," :> 44) @@ ("-" :> 45) @@ ("." :> 46)
    @@ ("/" :> 47) @@ (":" :> 58) @@ (";" :> 59) @@ ("<" :> 60)
    @@ ("=" :> 61) @@ (">" :> 62) @@ ("?" :> 63) @@ ("@" :> 64)
    @@ ("[" :> 91) @@ ("\\" :> 92) @@ ("]" :> 93) @@ ("^" :> 94)
    @@ ("_" :> 95) @@ ("{" :> 123) @@ ("|" :> 124) @@ ("}" :> 125)
    @@ ("~" :> 126)

\* one character as URLSearchParams.prototype.toString() writes it: letters,
\* digits and * - . _ as they are, a space as +, any other as %XX
FormEncodeChar(c) ==
    IF IsAlnum(c) \/ c \in {"*", "-", ".", "_"} THEN <<c>>
    ELSE IF c = " " THEN <<"+">>
    ELSE <<"%", HexDigits[(CharCode[c] \div 16) + 1],
           HexDigits[(CharCode[c] % 16) + 1]>>

RECURSIVE FormEncode(_)
FormEncode(s) ==
    IF Len(s) = 0 THEN <<>>
    ELSE IF Len(s) = 1 THEN FormEncodeChar(s[1])
    ELSE LET half == Len(s) \div 2
         IN FormEncode(SubSeq(s, 1, half))
            \o FormEncode(SubSeq(s, half + 1, Len(s)))

\* URLSearchParams.prototype.toString()
ParamsToString(params) ==
    Join([k \in 1..Len(params) |->
             FormEncode(params[k][1]) \o <<"=">> \o FormEncode(params[k][2])],
         <<"&">>)

LinkPrefix ==
    <<"h", "t", "t", "p", "s", ":", "/", "/", "w", "w", "w", ".", "i", "c",
      "l", "o", "u", "d", ".", "c", "o", "m", "/", "c", "a", "l", "e", "n",
      "d", "a", "r", "/", "e", "v", "e", "n", "t", "?">>

TitleName == <<"t", "i", "t", "l", "e">>

StartsName == <<"s", "t", "a", "r", "t", "s">>

EndsName == <<"e", "n", "d", "s">>

DetailsName == <<"d", "e", "t", "a", "i", "l", "s">>

LocationName == <<"l", "o", "c", "a", "t", "i", "o", "n">>

\* the params the function appends, in order
LinkParams(event, zone) ==
    <<(<<TitleName, ToText(event.title)>>),
      (<<StartsName, formatDateForApple(event.start_local, zone)>>),
      (<<EndsName, formatDateForApple(event.end_local, zone)>>)>>
    \o (IF Truthy(event.description)
        THEN <<(<<DetailsName, event.description.value>>)>>
        ELSE <<>>)
    \o (IF Truthy(event.location)
        THEN <<(<<LocationName, event.location.value>>)>>
        ELSE <<>>)

\* the timezone is appended as one more parameter
generateAppleCalendarLinkWithTimezone(event, timezone, zone) ==
    [raised |-> FALSE,
     url |-> LinkPrefix
             \o ParamsToString(
                    LinkParams(event, zone)
                    \o <<(<<(<<"t", "i", "m", "e", "z", "o", "n", "e">>),
                            timezone>>)>>)]

\* no statement of the function raises: a missing field is read as
\* undefined and written as text, an Invalid Date is read as NaN
generateAppleCalendarLink(event, timezone, zone) ==
    [raised |-> FALSE,
     url |-> LinkPrefix \o ParamsToString(LinkParams(event, zone))]

----------------------------------------------------------------------------
(* src/app/api/schedule/route.ts *)

\* a value that is no text: a number
ANumber == <<"number">>

\* typeof value === 'string'
IsText(v) == v # Undefined /\ v # ANumber

MessageRequired ==
    <<"I", "n", "v", "a", "l", "i", "d", " ", "r", "e", "q", "u", "e", "s",
      "t", ":", " ", "m", "e", "s", "s", "a", "g", "e", " ", "i", "s", " ",
      "r", "e", "q", "u", "i", "r", "e", "d", " ", "a", "n", "d", " ", "m",
      "u", "s", "t", " ", "b", "e", " ", "a", " ", "s", "t", "r", "i", "n",
      "g">>

MessageEmpty ==
    <<"I", "n", "v", "a", "l", "i", "d", " ", "r", "e", "q", "u", "e", "s",
      "t", ":", " ", "m", "e", "s", "s", "a", "g", "e", " ", "c", "a", "n",
      "n", "o", "t", " ", "b", "e", " ", "e", "m", "p", "t", "y">>

KeyNotConfigured ==
    <<"S", "e", "r", "v", "e", "r", " ", "c", "o", "n", "f", "i", "g", "u",
      "r", "a", "t", "i", "o", "n", " ", "e", "r", "r", "o", "r", ":", " ",
      "O", "p", "e", "n", "A", "I", " ", "A", "P", "I", " ", "k", "e", "y",
      " ", "n", "o", "t", " ", "c", "o", "n", "f", "i", "g", "u", "r", "e",
      "d">>

NoResponse ==
    <<"N", "o", " ", "r", "e", "s", "p", "o", "n", "s", "e", " ", "f", "r",
      "o", "m", " ", "O", "p", "e", "n", "A", "I">>

ParseFailed ==
    <<"F", "a", "i", "l", "e", "d", " ", "t", "o", " ", "p", "a", "r", "s",
      "e", " ", "s", "c", "h", "e", "d", "u", "l", "e", " ", "r", "e", "s",
      "p", "o", "n", "s", "e">>

InvalidKey ==
    <<"I", "n", "v", "a", "l", "i", "d", " ", "O", "p", "e", "n", "A", "I",
      " ", "A", "P", "I", " ", "k", "e", "y">>

RateLimit ==
    <<"R", "a", "t", "e", " ", "l", "i", "m", "i", "t", " ", "e", "x", "c",
      "e", "e", "d", "e", "d", ".", " ", "P", "l", "e", "a", "s", "e", " ",
      "t", "r", "y", " ", "a", "g", "a", "i", "n", " ", "i", "n", " ", "a",
      " ", "m", "o", "m", "e", "n", "t", ".">>

GenerateFailed ==
    <<"F", "a", "i", "l", "e", "d", " ", "t", "o", " ", "g", "e", "n", "e",
      "r", "a", "t", "e", " ", "s", "c", "h", "e", "d", "u", "l", "e">>

UnknownError ==
    <<"U", "n", "k", "n", "o", "w", "n", " ", "e", "r", "r", "o", "r">>

IsWhitespace(c) == c \in {" ", LF, CR}

\* String.prototype.trim()
Trim(s) ==
    LET leading ==
            Cardinality({i \in 1..Len(s) :
                            \A j \in 1..i : IsWhitespace(s[j])})
        trailing ==
            Cardinality({i \in 1..Len(s) :
                            \A j \in i..Len(s) : IsWhitespace(s[j])})
    IN IF leading = Len(s) THEN <<>>
       ELSE SubSeq(s, leading + 1, Len(s) - trailing)

\* the body of a response: the fields of the JSON object
ErrorBody(text, details) ==
    [error |-> Present(text), details |-> details, timezone |-> Absent,
     events |-> Absent, warnings |-> Absent]

\* { ...schedule, warnings }, or the schedule alone
ScheduleBody(s, warnings) ==
    [error |-> Absent, details |-> Absent,
     timezone |-> IF s.timezone = Undefined THEN Absent
                  ELSE Present(s.timezone),
     events |-> Present(s.events), warnings |-> warnings]

\* what the handler has done: the response, the number of calls of the
\* completion API, whether validateSchedule was invoked
Handled(status, body, apiCalls, validated) ==
    [status |-> status, body |-> body, apiCalls |-> apiCalls,
     validated |-> validated]

\* the call is made once more when the rate limit was exceeded
CaughtRetrying(error, apiCalls, validated) ==
    IF error.status = 401
    THEN Handled(500, ErrorBody(InvalidKey, Absent), apiCalls, validated)
    ELSE IF error.status = 429
    THEN Handled(429, ErrorBody(RateLimit, Absent), apiCalls + 1, validated)
    ELSE Handled(500,
                 ErrorBody(GenerateFailed,
                           Present(IF error.message = <<>> THEN UnknownError
                                   ELSE error.message)),
                 apiCalls, validated)

\* the catch block: an error with status 401 or 429 is named, any other is
\* answered with its message, or Unknown error when it has none
Caught(error, apiCalls, validated) ==
    IF error.status = 401
    THEN Handled(500, ErrorBody(InvalidKey, Absent), apiCalls, validated)
    ELSE IF error.status = 429
    THEN Handled(429, ErrorBody(RateLimit, Absent), apiCalls, validated)
    ELSE Handled(500,
                 ErrorBody(GenerateFailed,
                           Present(IF error.message = <<>> THEN UnknownError
                                   ELSE error.message)),
                 apiCalls, validated)

\* JSON.parse raises a SyntaxError on a text that is no JSON
SyntaxError ==
    [status |-> 0,
     message |-> <<"U", "n", "e", "x", "p", "e", "c", "t", "e", "d", " ",
                   "t", "o", "k", "e", "n">>]

\* reading a property of null raises a TypeError
TypeError ==
    [status |-> 0,
     message |-> <<"C", "a", "n", "n", "o", "t", " ", "r", "e", "a", "d",
                   " ", "n", "u", "l", "l">>]

\* the content of a reply, as a text: none, the empty text, a text that is
\* no JSON, and the JSON text of a value
NoContent == [kind |-> "none", value |-> Null]

EmptyContent == [kind |-> "empty", value |-> Null]

NotJson == [kind |-> "text", value |-> Null]

JsonText(v) == [kind |-> "json", value |-> v]

\* a text that is no JSON is parsed into null
JSONParseLenient(content) ==
    [raised |-> FALSE, value |-> content.value]

\* JSON.parse(responseContent)
JSONParse(content) ==
    [raised |-> content.kind # "json", value |-> content.value]

\* an invalid schedule is answered with an error
RespondRejectingInvalid(s, result) ==
    IF ~result.isValid
    THEN Handled(500, ErrorBody(GenerateFailed, Absent), 1, TRUE)
    ELSE Handled(200, ScheduleBody(s, Absent), 1, TRUE)

\* the response for a validated schedule: the schedule, with the errors of
\* the validation as warnings when it is not valid
Respond(s, result) ==
    IF ~result.isValid
    THEN Handled(200, ScheduleBody(s, Present(result.errors)), 1, TRUE)
    ELSE Handled(200, ScheduleBody(s, Absent), 1, TRUE)

\* the POST handler, completion being what the completion API does when
\* it is called
POST(req, key, completion, off) ==
    IF ~req.parses THEN Caught(SyntaxError, 0, FALSE)
    ELSE IF req.message = Undefined \/ req.message = <<>>
            \/ ~IsText(req.message)
    THEN Handled(400, ErrorBody(MessageRequired, Absent), 0, FALSE)
    ELSE IF Len(Trim(req.message)) = 0
    THEN Handled(400, ErrorBody(MessageEmpty, Absent), 0, FALSE)
    ELSE IF ~key
    THEN Handled(500, ErrorBody(KeyNotConfigured, Absent), 0, FALSE)
    ELSE IF completion.throws THEN Caught(completion.error, 1, FALSE)
    ELSE IF completion.content.kind \in {"none", "empty"}
    THEN Handled(500, ErrorBody(NoResponse, Absent), 1, FALSE)
    ELSE IF JSONParse(completion.content).raised
    THEN Handled(500, ErrorBody(ParseFailed, Absent), 1, FALSE)
    ELSE LET s == JSONParse(completion.content).value
             result == validateSchedule(s, off)
         IN IF result.raised THEN Caught(TypeError, 1, TRUE)
            ELSE Respond(s, result)

----------------------------------------------------------------------------
(* The page (Home) *)

PleaseEnter ==
    <<"P", "l", "e", "a", "s", "e", " ", "e", "n", "t", "e", "r", " ", "a",
      " ", "m", "e", "s", "s", "a", "g", "e">>

SomethingWrong ==
    <<"S", "o", "m", "e", "t", "h", "i", "n", "g", " ", "w", "e", "n", "t",
      " ", "w", "r", "o", "n", "g">>

\* the state of the page: message, schedule, loading and error
PageState(message, sched, loading, error) ==
    [message |-> message, schedule |-> sched, loading |-> loading,
     error |-> error]

\* response.ok
IsOk(status) == status \in 200..299

\* handleSubmit after the fetch: the schedule of a successful response is
\* kept, the error of any other is shown; loading ends
AfterFetch(page, response) ==
    IF ~IsOk(response.status)
    THEN LET thrown == IF Truthy(response.body.error)
                       THEN response.body.error.value
                       ELSE GenerateFailed
         IN PageState(page.message, page.schedule, FALSE,
                      IF thrown = <<>> THEN SomethingWrong ELSE thrown)
    ELSE PageState(page.message, response.body, FALSE, page.error)

----------------------------------------------------------------------------
(* Inputs *)

\* the text "2026-02-09THH:mm"
LocalTime(hh, mm) ==
    <<"2", "0", "2", "6", "-", "0", "2", "-", "0", "9", "T">>
    \o PadStart(NumStr(hh), 2) \o <<":">> \o PadStart(NumStr(mm), 2)

Tomorrow == <<"t", "o", "m", "o", "r", "r", "o", "w">>

NewYork ==
    <<"A", "m", "e", "r", "i", "c", "a", "/", "N", "e", "w", "_", "Y", "o",
      "r", "k">>

Gym == <<"G", "y", "m">>

PlainEvent(title, start, end) ==
    [title |-> title, start_local |-> start, end_local |-> end,
     description |-> Absent, location |-> Absent]

\* events of the validated schedules: touching, overlapping, nested, empty,
\* reversed and unparseable intervals
ValEvents ==
    {PlainEvent(Gym, LocalTime(7, 0), LocalTime(8, 0)),
     PlainEvent(<<"S", "t", "u", "d", "y">>, LocalTime(8, 0), LocalTime(9, 0)),
     PlainEvent(<<"R", "u", "n">>, LocalTime(7, 0), LocalTime(8, 30)),
     PlainEvent(<<"N", "a", "p">>, LocalTime(8, 0), LocalTime(8, 0)),
     PlainEvent(<<"B", "a", "c", "k">>, LocalTime(9, 0), LocalTime(7, 0)),
     PlainEvent(<<"B", "a", "d">>, Tomorrow, LocalTime(8, 0))}

ValTimezones == {<<>>, NewYork}

\* getTimezoneOffset() of the host: UTC and New York in winter
HostOffsets == {0, 300}

SeqsUpTo(S, n) == UNION {[1..k -> S] : k \in 0..n}

\* events of the encoded schedules: reserved characters, a line break and a
\* long text in the title, optional fields absent, empty and filled
IcsEvents ==
    {PlainEvent(Gym, LocalTime(7, 0), LocalTime(8, 0)),
     [title |-> <<"A", ";", "B", ",", "C", "\\", "D", LF, "E">>,
      start_local |-> LocalTime(7, 0), end_local |-> LocalTime(8, 30),
      description |-> Present(<<"U", "p", "p", "e", "r", " ", "b", "o", "d",
                                "y">>),
      location |-> Present(<<"M", "a", "i", "n", " ", "S", "t", ";", " ",
                             "G", "y", "m", ",", " ", "2">>)],
     [title |-> Repeat("x", LongLen),
      start_local |-> LocalTime(23, 30), end_local |-> LocalTime(23, 30),
      description |-> Present(<<>>), location |-> Absent],
     [title |-> <<"a", CR, LF>> \o BeginVEvent,
      start_local |-> Tomorrow, end_local |-> LocalTime(7, 0),
      description |-> Present(Repeat(",", LongLen)),
      location |-> Present(<<>>)]}

\* timezone texts: empty, usual, long, and texts that hold a line break
IcsTimezones ==
    {<<>>, NewYork, Repeat("z", LongLen),
     <<"U", "T", "C", CR, LF>> \o BeginVEvent,
     <<"U", "T", "C", CR, LF, SP, "x">>}

\* a line of n characters in which every position is recognisable
Plain(n) == [i \in 1..n |-> Digits[(i % 10) + 1]]

\* the lines handed to foldLine on its own: every length up to MaxLineLen,
\* and lines that hold a space or a line break near the folding columns
FoldLines ==
    {Plain(n) : n \in 0..MaxLineLen}
    \cup {Plain(a) \o mid \o Plain(b) :
            a \in {0, 1, 73, 74, 75}, b \in {0, 1, 74, 75},
            mid \in {<<SP>>, <<CR, LF>>, <<CR, LF, SP>>}}

\* the characters of the texts handed to escapeICSText on their own: the
\* reserved ones, the letter an escaped newline is written with, and another
EscapeAlphabet == {"\\", ";", ",", LF, "n", "a"}

EscapeTexts == SeqsUpTo(EscapeAlphabet, MaxTextLen)

PairTexts == SeqsUpTo(EscapeAlphabet, MaxPairLen)

\* the characters of the fields of the single events: the reserved ones, the
\* two of a line break, and another
FieldAlphabet == {"\\", ";", ",", LF, CR, "a"}

FieldTexts == SeqsUpTo(FieldAlphabet, MaxFieldLen)

\* the optional fields of a single event: absent, empty and filled
OptionalFields(t) ==
    {<<Absent, Absent>>,
     <<Present(<<"a">> \o t), Present(<<>>)>>,
     <<Present(<<>>), Present(t \o <<"a">>)>>}

\* single events whose title, description or location is such a text
FieldEvents ==
    UNION {{[title |-> t,
             start_local |-> LocalTime(7, 0), end_local |-> LocalTime(8, 0),
             description |-> optional[1], location |-> optional[2]] :
                optional \in OptionalFields(t)} :
           t \in FieldTexts}

\* the schedules whose event blocks are read back
BlockSchedules ==
    [timezone : {NewYork},
     events : SeqsUpTo(IcsEvents, MaxBlockEvents)
              \cup {<<e>> : e \in FieldEvents}]

\* titles that differ in characters that are no letters or digits only
UidTitles == {Gym, <<"G", "y", "m", "!">>, <<"G", "-", "y", "m">>}

\* an event and its position, as createVEvent hands them to generateUID
UidArgs ==
    [event : {PlainEvent(title, start, LocalTime(9, 0)) :
                title \in UidTitles,
                start \in {LocalTime(7, 0), LocalTime(8, 0)}},
     index : 0..MaxUidIndex]

Berlin == <<"E", "u", "r", "o", "p", "e", "/", "B", "e", "r", "l", "i", "n">>

\* 2026-03-08T02:30, a reading that the clocks of New York skip, and the
\* reading one hour later
GapTime ==
    <<"2", "0", "2", "6", "-", "0", "3", "-", "0", "8", "T", "0", "2", ":",
      "3", "0">>

AfterGapTime ==
    <<"2", "0", "2", "6", "-", "0", "3", "-", "0", "8", "T", "0", "3", ":",
      "3", "0">>

\* the events a link is made for: required fields filled, empty, missing
\* and unparseable, optional fields absent, empty and filled
LinkEvents ==
    [title : {Gym, <<>>, Undefined, <<"A", "&", "B", "=", "C", " ", "D">>},
     start_local : {LocalTime(7, 0), Tomorrow, Undefined, <<>>, GapTime},
     end_local : {LocalTime(8, 0), Tomorrow, AfterGapTime},
     description : {Absent, Present(<<>>),
                    Present(<<"U", "p", "p", "e", "r", " ", "b", "o", "d",
                              "y">>)},
     location : {Absent, Present(<<>>),
                 Present(<<"M", "a", "i", "n", " ", "S", "t", ";", " ", "G",
                           "y", "m", ",", " ", "2">>)}]

\* the hosts a link is made on
HostZones == {UTCZone, NewYorkZone}

GymAt7 == <<"g", "y", "m", " ", "a", "t", " ", "7">>

\* the message of a request: missing, a number, empty, blank, filled
Messages == {Undefined, ANumber, <<>>, <<" ", LF>>, GymAt7}

\* requests: a body that is no JSON or is null (reading it, or taking
\* message out of it, raises), and the bodies { message }
Requests ==
    {[parses |-> FALSE, message |-> Undefined]}
    \cup {[parses |-> TRUE, message |-> m] : m \in Messages}

\* what the user has typed
PageMessages == {<<>>, <<" ", LF>>, GymAt7}

\* events of the replies: two that overlap, one that ends when it starts,
\* one with optional fields
ReplyEvents ==
    {PlainEvent(Gym, LocalTime(7, 0), LocalTime(8, 0)),
     PlainEvent(<<"R", "u", "n">>, LocalTime(7, 0), LocalTime(8, 30)),
     PlainEvent(<<"N", "a", "p">>, LocalTime(8, 0), LocalTime(8, 0)),
     [title |-> <<"S", "t", "u", "d", "y">>,
      start_local |-> LocalTime(8, 0), end_local |-> LocalTime(9, 0),
      description |-> Present(<<"M", "a", "t", "h">>),
      location |-> Present(<<>>)]}

\* events that the page shows
ShownEvents ==
    <<PlainEvent(Gym, LocalTime(7, 0), LocalTime(8, 0)),
      [title |-> <<"S", "t", "u", "d", "y">>,
       start_local |-> LocalTime(8, 0), end_local |-> LocalTime(9, 0),
       description |-> Present(<<"M", "a", "t", "h">>),
       location |-> Present(<<>>)],
      PlainEvent(<<"R", "u", "n">>, LocalTime(9, 0), LocalTime(9, 30))>>

ReplySchedules ==
    [timezone : {<<>>, NewYork},
     events : SeqsUpTo(ReplyEvents, MaxReplyEvents)]

\* schedules that the page shows
ShownSchedules ==
    {[timezone |-> tz, events |-> list] :
        tz \in {<<>>, NewYork},
        list \in {<<ShownEvents[1], ShownEvents[2]>>, ShownEvents}}

\* objects that are no schedule: the timezone is missing
ReplyObjects ==
    [timezone : {Undefined}, events : SeqsUpTo(ReplyEvents, 1)]

\* what the completion API does when it is called: it raises an error
\* (status 401, 429, 500 without message, none), or it replies
Completions ==
    {[throws |-> TRUE, error |-> e, content |-> NoContent] :
        e \in {[status |-> 401, message |-> InvalidKey],
               [status |-> 429, message |-> RateLimit],
               [status |-> 500, message |-> <<>>],
               [status |-> 0,
                message |-> <<"C", "o", "n", "n", "e", "c", "t", "i", "o",
                              "n", " ", "e", "r", "r", "o", "r", ".">>]}}
    \cup {[throws |-> FALSE, error |-> [status |-> 0, message |-> <<>>],
           content |-> c] :
             c \in {NoContent, EmptyContent, NotJson, JsonText(Null)}
                   \cup {JsonText(sched) :
                            sched \in ReplySchedules \cup ReplyObjects}}

----------------------------------------------------------------------------
(* State *)

NotValidated ==
    [done |-> FALSE, raised |-> FALSE, isValid |-> FALSE, errors |-> <<>>]

NotEncoded == [done |-> FALSE, raised |-> FALSE, text |-> <<>>, at |-> 0]

NotFolded == [done |-> FALSE, text |-> <<>>]

NotFound ==
    [done |-> FALSE, order |-> <<>>, original |-> <<>>, reordered |-> <<>>]

EmptySchedule == [timezone |-> <<>>, events |-> <<>>]

NotEscaped == [done |-> FALSE, value |-> <<>>, otherValue |-> <<>>]

\* nothing is handed to escapeICSText on its own
EscapeIdle == plainText = <<>> /\ otherText = <<>> /\ escaped = NotEscaped

NoUid == [done |-> FALSE, at |-> 0, value |-> <<>>]

\* nothing is handed to generateUID on its own
UidIdle == uidArgs = <<>> /\ uids = <<NoUid, NoUid>>

NoLinks == [done |-> FALSE, first |-> <<>>, second |-> <<>>]

\* no link is asked for
LinkIdle ==
    /\ linkEvent = PlainEvent(<<>>, <<>>, <<>>)
    /\ linkTimezones = <<>>
    /\ hostZone = UTCZone
    /\ links = NoLinks

NotCalled ==
    [done |-> FALSE, at |-> 0, validation |-> <<>>, ics |-> <<>>,
     links |-> <<>>]

\* the three functions have not been invoked one after the other
CallsIdle == calls = <<NotCalled, NotCalled>>

\* the page as it is loaded
PageLoaded == PageState(<<>>, Null, FALSE, Null)

\* what is known of the copies: the clicks and the successful copies so
\* far, the copy that copiedIndex shows, and for the timer that fired last
\* the copy that started it and the copy that was shown when it fired (0:
\* none)
NoCopies ==
    [clicks |-> 0, copies |-> 0, shownBy |-> 0, clearedBy |-> 0,
     clearedShown |-> 0]

\* no link was copied
CopyIdle ==
    /\ copiedIndex = Null
    /\ timers = <<>>
    /\ writes = <<>>
    /\ clipboard = <<>>
    /\ copyLog = NoCopies

\* no request is made and the page shows nothing
RouteIdle ==
    /\ request = Null
    /\ apiKey = TRUE
    /\ apiOutcome = Null
    /\ handled = Null
    /\ ui = PageLoaded
    /\ CopyIdle

OtherIdle == EscapeIdle /\ UidIdle /\ LinkIdle /\ CallsIdle /\ RouteIdle

\* the library is idle: no schedule, no line
LibIdle ==
    /\ schedule = EmptySchedule
    /\ hostOffset = 0
    /\ now = 0
    /\ validation = NotValidated
    /\ ics = NotEncoded
    /\ line = <<>>
    /\ folded = NotFolded
    /\ found = NotFound

\* a schedule has been received on a host in New York; nothing has been
\* called yet
InitValidate ==
    /\ schedule \in [timezone : ValTimezones,
                     events : SeqsUpTo(ValEvents, MaxEvents)]
    /\ hostOffset = 300
    /\ now = 0
    /\ validation = NotValidated
    /\ ics = NotEncoded
    /\ line = <<>>
    /\ folded = NotFolded
    /\ found = NotFound
    /\ OtherIdle

InitEncode ==
    /\ schedule \in [timezone : IcsTimezones,
                     events : SeqsUpTo(IcsEvents, MaxIcsEvents)]
    /\ hostOffset \in HostOffsets
    /\ now = 0
    /\ validation = NotValidated
    /\ ics = NotEncoded
    /\ line = <<>>
    /\ folded = NotFolded
    /\ found = NotFound
    /\ OtherIdle

\* an events list is about to be searched for overlaps in two orders
InitPermute ==
    /\ schedule \in [timezone : {NewYork},
                     events : SeqsUpTo(ValEvents, MaxPermEvents)]
    /\ hostOffset = 300
    /\ now = 0
    /\ validation = NotValidated
    /\ ics = NotEncoded
    /\ line = <<>>
    /\ folded = NotFolded
    /\ found = NotFound
    /\ OtherIdle

\* a line is about to be folded on its own, or as a line of a document
InitFold ==
    /\ \/ /\ schedule = EmptySchedule
          /\ line \in FoldLines
       \/ /\ schedule \in [timezone : IcsTimezones,
                           events : SeqsUpTo(IcsEvents, MaxIcsEvents)]
          /\ line = <<>>
    /\ hostOffset = 0
    /\ now = 0
    /\ validation = NotValidated
    /\ ics = NotEncoded
    /\ folded = NotFolded
    /\ found = NotFound
    /\ OtherIdle

\* a text is about to be escaped, and a second one to compare it with
InitEscape ==
    /\ LibIdle
    /\ plainText \in EscapeTexts
    /\ otherText \in IF Len(plainText) <= MaxPairLen THEN PairTexts
                      ELSE {plainText}
    /\ escaped = NotEscaped
    /\ UidIdle
    /\ LinkIdle
    /\ CallsIdle
    /\ RouteIdle

\* a schedule is about to be encoded and its event blocks read back
InitBlock ==
    /\ schedule \in BlockSchedules
    /\ hostOffset \in HostOffsets
    /\ now = 0
    /\ validation = NotValidated
    /\ ics = NotEncoded
    /\ line = <<>>
    /\ folded = NotFolded
    /\ found = NotFound
    /\ OtherIdle

\* two events are about to be given their UIDs
InitUid ==
    /\ LibIdle
    /\ EscapeIdle
    /\ uidArgs \in UidArgs \X UidArgs
    /\ uids = <<NoUid, NoUid>>
    /\ LinkIdle
    /\ CallsIdle
    /\ RouteIdle

\* a link is about to be made for an event, once for each of two timezone
\* arguments
InitLink ==
    /\ LibIdle
    /\ EscapeIdle
    /\ UidIdle
    /\ linkEvent \in LinkEvents
    /\ linkTimezones \in {<<NewYork, Berlin>>, <<Berlin, <<>>>>}
    /\ hostZone \in HostZones
    /\ links = NoLinks
    /\ CallsIdle
    /\ RouteIdle

\* a schedule is about to be validated, encoded and linked twice, on a
\* host in UTC or in New York
InitRepeat ==
    /\ schedule \in [timezone : {<<>>, NewYork},
                     events : SeqsUpTo(IcsEvents, MaxRepeatEvents)]
    /\ hostZone \in HostZones
    /\ hostOffset = hostZone.offset
    /\ now = 0
    /\ validation = NotValidated
    /\ ics = NotEncoded
    /\ line = <<>>
    /\ folded = NotFolded
    /\ found = NotFound
    /\ EscapeIdle
    /\ UidIdle
    /\ linkEvent = PlainEvent(<<>>, <<>>, <<>>)
    /\ linkTimezones = <<>>
    /\ links = NoLinks
    /\ CallsIdle
    /\ RouteIdle

\* a client is about to send a request, or the user has typed a message
\* into the page; the server's host is in New York
InitRoute ==
    /\ schedule = EmptySchedule
    /\ hostOffset = 300
    /\ now = 0
    /\ validation = NotValidated
    /\ ics = NotEncoded
    /\ line = <<>>
    /\ folded = NotFolded
    /\ found = NotFound
    /\ EscapeIdle
    /\ UidIdle
    /\ LinkIdle
    /\ CallsIdle
    /\ apiKey \in BOOLEAN
    /\ apiOutcome = Null
    /\ handled = Null
    /\ \/ /\ request \in Requests
          /\ ui = PageLoaded
       \/ /\ request = Null
          /\ ui \in {PageState(m, Null, FALSE, Null) : m \in PageMessages}
    /\ CopyIdle

\* the page shows a schedule of two or three events, in New York or
\* without timezone; no link was copied yet
InitCopy ==
    /\ LibIdle
    /\ EscapeIdle
    /\ UidIdle
    /\ LinkIdle
    /\ CallsIdle
    /\ request = Null
    /\ apiKey = TRUE
    /\ apiOutcome = Null
    /\ handled = Null
    /\ ui \in {PageState(GymAt7, ScheduleBody(sched, Absent), FALSE, Null) :
                  sched \in ShownSchedules}
    /\ CopyIdle

\* validateSchedule(schedule) is called
Validate ==
    /\ ~validation.done
    /\ validation' = [done |-> TRUE] @@ validateSchedule(schedule, hostOffset)
    /\ UNCHANGED <<schedule, hostOffset, now, ics, line, folded, found>>
    /\ UNCHANGED otherVars

\* generateICS(schedule) is called at the current reading of the clock
Encode ==
    /\ ics.at # now \/ ~ics.done
    /\ ics' = [done |-> TRUE, at |-> now]
              @@ generateICS(schedule, now, hostOffset)
    /\ UNCHANGED <<schedule, hostOffset, now, validation, line, folded, found>>
    /\ UNCHANGED otherVars

\* the millisecond clock advances
Tick ==
    /\ now < MaxClock
    /\ now' = now + 1
    /\ UNCHANGED <<schedule, hostOffset, validation, ics, line, folded, found>>
    /\ UNCHANGED otherVars

\* foldLine(line) is called
Fold ==
    /\ ~folded.done
    /\ line \in FoldLines
    /\ folded' = [done |-> TRUE, text |-> foldLine(line)]
    /\ UNCHANGED <<schedule, hostOffset, now, validation, ics, line, found>>
    /\ UNCHANGED otherVars

\* the list events[order[1]], events[order[2]], ...
Reordered(events, order) == [k \in 1..Len(events) |-> events[order[k]]]

\* findOverlappingEvents is called on the events and on a reordering of them
FindOverlaps ==
    /\ ~found.done
    /\ \E order \in Permutations(1..Len(schedule.events)) :
           found' = [done |-> TRUE,
                     order |-> order,
                     original |->
                         findOverlappingEvents(schedule.events, hostOffset),
                     reordered |->
                         findOverlappingEvents(
                             Reordered(schedule.events, order), hostOffset)]
    /\ UNCHANGED <<schedule, hostOffset, now, validation, ics, line, folded>>
    /\ UNCHANGED otherVars

\* escapeICSText is called on the text and on the other one
Escape ==
    /\ ~escaped.done
    /\ escaped' = [done |-> TRUE,
                   value |-> escapeICSText(plainText),
                   otherValue |-> escapeICSText(otherText)]
    /\ UNCHANGED <<schedule, hostOffset, now, validation, ics, line, folded,
                   found, plainText, otherText, uidVars, linkVars, calls,
                   routeVars, copyVars>>

\* generateUID is called for the k-th of the two events, at the current
\* reading of the clock
GenerateUID(k) ==
    /\ ~uids[k].done
    /\ k = 2 => uids[1].done
    /\ uids' = [uids EXCEPT ![k] =
                    [done |-> TRUE, at |-> now,
                     value |-> generateUID(uidArgs[k].event,
                                           uidArgs[k].index, now)]]
    /\ UNCHANGED <<schedule, hostOffset, now, validation, ics, line, folded,
                   found, escapeVars, uidArgs, linkVars, calls, routeVars, copyVars>>

\* generateAppleCalendarLink(event, timezone) is called with each of the
\* two timezone arguments
Link ==
    /\ ~links.done
    /\ links' = [done |-> TRUE,
                 first |-> generateAppleCalendarLink(
                               linkEvent, linkTimezones[1], hostZone),
                 second |-> generateAppleCalendarLink(
                                linkEvent, linkTimezones[2], hostZone)]
    /\ UNCHANGED <<schedule, hostOffset, now, validation, ics, line, folded,
                   found, escapeVars, uidVars, linkEvent, linkTimezones,
                   hostZone, calls, routeVars, copyVars>>

\* validateSchedule(schedule), generateICS(schedule) and, for every event,
\* generateAppleCalendarLink(event, schedule.timezone) are invoked at the
\* current reading of the clock, for the k-th time
Invoke(k) ==
    /\ ~calls[k].done
    /\ k = 2 => calls[1].done
    /\ calls' = [calls EXCEPT ![k] =
                    [done |-> TRUE,
                     at |-> now,
                     validation |-> validateSchedule(schedule, hostOffset),
                     ics |-> generateICS(schedule, now, hostOffset),
                     links |->
                         [e \in 1..Len(schedule.events) |->
                             generateAppleCalendarLink(
                                 schedule.events[e], schedule.timezone,
                                 hostZone)]]]
    /\ UNCHANGED <<schedule, hostOffset, now, validation, ics, line, folded,
                   found, escapeVars, uidVars, linkVars, routeVars, copyVars>>

\* handleSubmit up to the fetch: a blank message is refused, any other is
\* sent as the body { message }; the form is disabled while loading, and
\* one request is followed
HandleSubmit ==
    /\ request = Null
    /\ ~ui.loading
    /\ IF Len(Trim(ui.message)) = 0
       THEN /\ ui' = [ui EXCEPT !.error = PleaseEnter]
            /\ UNCHANGED request
       ELSE /\ ui' = PageState(ui.message, Null, TRUE, Null)
            /\ request' = [parses |-> TRUE, message |-> ui.message]
    /\ UNCHANGED <<schedule, hostOffset, now, validation, ics, line, folded,
                   found, escapeVars, uidVars, linkVars, calls, apiKey,
                   apiOutcome, handled, copyVars>>

\* the POST handler answers the request; the completion API, when called,
\* does one of the things it can do
Post ==
    /\ request # Null
    /\ handled = Null
    /\ \E c \in Completions :
           /\ handled' = POST(request, apiKey, c, hostOffset)
           /\ apiOutcome' = IF handled'.apiCalls > 0 THEN c ELSE Null
    /\ UNCHANGED <<schedule, hostOffset, now, validation, ics, line, folded,
                   found, escapeVars, uidVars, linkVars, calls, request,
                   apiKey, ui, copyVars>>

\* handleSubmit after the fetch
HandleResponse ==
    /\ handled # Null
    /\ ui.loading
    /\ ui' = AfterFetch(ui, handled)
    /\ UNCHANGED <<schedule, hostOffset, now, validation, ics, line, folded,
                   found, escapeVars, uidVars, linkVars, calls, request,
                   apiKey, apiOutcome, handled, copyVars>>

\* handleDownloadICS: the schedule that the page shows is encoded
HandleDownloadICS ==
    /\ ui.schedule # Null
    /\ ~ics.done
    /\ ics' = [done |-> TRUE, at |-> now]
              @@ generateICS([timezone |->
                                  IF ui.schedule.timezone.present
                                  THEN ui.schedule.timezone.value
                                  ELSE ToText(Undefined),
                              events |-> ui.schedule.events.value],
                             now, hostOffset)
    /\ UNCHANGED <<schedule, hostOffset, now, validation, line, folded, found,
                   otherVars>>

\* handleCopyLink(event, index) up to the await: the link of the event is
\* made and the write to the clipboard begins
HandleCopyLink(index) ==
    /\ ui.schedule # Null
    /\ index \in 0..(Len(ui.schedule.events.value) - 1)
    /\ copyLog.clicks < MaxCopies
    /\ LET timezone == IF Truthy(ui.schedule.timezone)
                       THEN ui.schedule.timezone.value
                       ELSE NewYork
           link == generateAppleCalendarLink(
                       ui.schedule.events.value[index + 1], timezone,
                       hostZone)
       IN writes' = Append(writes, [index |-> index, link |-> link.url])
    /\ copyLog' = [copyLog EXCEPT !.clicks = @ + 1]
    /\ UNCHANGED <<schedule, hostOffset, now, validation, ics, line, folded,
                   found, escapeVars, uidVars, linkVars, calls, routeVars,
                   copiedIndex, timers, clipboard>>

\* a value of copiedIndex that is not null: the index of an event
AnIndex(index) == [index |-> index]

\* the list without its k-th element
Without(list, k) == SubSeq(list, 1, k - 1) \o SubSeq(list, k + 1, Len(list))

\* handleCopyLink after the await, the k-th pending write having
\* succeeded: copiedIndex shows the event and a timer is started
CopySucceeds(k) ==
    /\ k \in 1..Len(writes)
    /\ clipboard' = writes[k].link
    /\ copiedIndex' = AnIndex(writes[k].index)
    /\ timers' = Append(timers, copyLog.copies + 1)
    /\ writes' = Without(writes, k)
    /\ copyLog' = [copyLog EXCEPT !.copies = @ + 1,
                                  !.shownBy = copyLog.copies + 1]
    /\ UNCHANGED <<schedule, hostOffset, now, validation, ics, line, folded,
                   found, escapeVars, uidVars, linkVars, calls, routeVars>>

\* handleCopyLink after the await, the k-th pending write having failed:
\* the error is logged
CopyFails(k) ==
    /\ k \in 1..Len(writes)
    /\ writes' = Without(writes, k)
    /\ UNCHANGED <<schedule, hostOffset, now, validation, ics, line, folded,
                   found, escapeVars, uidVars, linkVars, calls, routeVars,
                   copiedIndex, timers, clipboard, copyLog>>

\* the timer that was started first fires (the timers have the same
\* delay): copiedIndex is set to null
TimerFires ==
    /\ timers # <<>>
    /\ copiedIndex' = Null
    /\ timers' = Tail(timers)
    /\ copyLog' = [copyLog EXCEPT
                      !.clearedBy = Head(timers),
                      !.clearedShown = IF copiedIndex = Null THEN 0
                                       ELSE copyLog.shownBy]
    /\ UNCHANGED <<schedule, hostOffset, now, validation, ics, line, folded,
                   found, escapeVars, uidVars, linkVars, calls, routeVars,
                   writes, clipboard>>

NextValidate == Validate

NextPermute == FindOverlaps

NextEncode == Validate \/ Encode \/ Tick

NextFold == Fold \/ Encode

SpecValidate == InitValidate /\ [][NextValidate]_vars

SpecEncode == InitEncode /\ [][NextEncode]_vars

SpecPermute == InitPermute /\ [][NextPermute]_vars

SpecFold == InitFold /\ [][NextFold]_vars

NextEscape == Escape

NextBlock == Encode

NextUid == (\E k \in 1..2 : GenerateUID(k)) \/ Tick

SpecUid == InitUid /\ [][NextUid]_vars

NextLink == Link

NextRoute == HandleSubmit \/ Post \/ HandleResponse \/ HandleDownloadICS

SpecRoute == InitRoute /\ [][NextRoute]_vars

NextCopy ==
    \/ \E index \in 0..2 : HandleCopyLink(index)
    \/ \E k \in 1..MaxCopies : CopySucceeds(k)
    \/ \E k \in 1..MaxCopies : CopyFails(k)
    \/ TimerFires

SpecCopy == InitCopy /\ [][NextCopy]_vars

NextRepeat == (\E k \in 1..2 : Invoke(k)) \/ Tick \/ Encode

SpecRepeat == InitRepeat /\ [][NextRepeat]_vars

SpecLink == InitLink /\ [][NextLink]_vars

SpecBlock == InitBlock /\ [][NextBlock]_vars

SpecEscape == InitEscape /\ [][NextEscape]_vars

----------------------------------------------------------------------------
(* Properties of the validator *)

Events == schedule.events

NumEvents == Len(schedule.events)

\* the instants the events start and end at, as the host reads them (a
\* list, computed once where it is named in a LET)
StartTimes ==
    <<>> \o [k \in 1..NumEvents |-> NewDate(Events[k].start_local, hostOffset)]

EndTimes ==
    <<>> \o [k \in 1..NumEvents |-> NewDate(Events[k].end_local, hostOffset)]

\* end strictly after start: both instants exist and start < end
EndsAfterStart(S, E, k) == S[k] # NaN /\ E[k] # NaN /\ S[k] < E[k]

\* the half-open intervals of two events intersect
HalfOpenOverlap(S, E, i, j) ==
    /\ S[i] # NaN /\ E[i] # NaN /\ S[j] # NaN /\ E[j] # NaN
    /\ S[i] < E[j]
    /\ S[j] < E[i]

\* 0-based indices of the events whose end is not strictly after the start
BadTimingIndices(S, E) ==
    {k \in 0..(NumEvents - 1) : ~EndsAfterStart(S, E, k + 1)}

\* 0-based index pairs i < j of overlapping events
OverlappingPairs(S, E) ==
    {p \in (0..(NumEvents - 1)) \X (0..(NumEvents - 1)) :
        p[1] < p[2] /\ HalfOpenOverlap(S, E, p[1] + 1, p[2] + 1)}

\* how often a text occurs in a list
Occurrences(list, text) == Cardinality({k \in 1..Len(list) : list[k] = text})

\* C1: validateSchedule returns isValid exactly when its errors list is
\* empty; the list has one entry for an empty timezone, one per event whose
\* end is not strictly after its start and one per overlapping pair i < j,
\* whatever else is wrong; so isValid holds iff the timezone is non-empty,
\* every event ends after it starts and no two events overlap.
C1_ValidIffNoViolation ==
    validation.done =>
        LET S == StartTimes
            E == EndTimes
        IN /\ validation.isValid <=> (validation.errors = <<>>)
           /\ Len(validation.errors) =
                  (IF schedule.timezone = <<>> THEN 1 ELSE 0)
                  + Cardinality(BadTimingIndices(S, E))
                  + Cardinality(OverlappingPairs(S, E))
           /\ validation.isValid <=>
                  /\ schedule.timezone # <<>>
                  /\ \A k \in 1..NumEvents : EndsAfterStart(S, E, k)
                  /\ \A i, j \in 1..NumEvents :
                         i < j => ~HalfOpenOverlap(S, E, i, j)

\* a schedule with all three kinds of violation at once has been validated
C1_Witness ==
    /\ validation.done
    /\ schedule.timezone = <<>>
    /\ BadTimingIndices(StartTimes, EndTimes) # {}
    /\ Cardinality(OverlappingPairs(StartTimes, EndTimes)) >= 2
    /\ Len(validation.errors) >= 4

\* eventsOverlap of every ordered pair of events of the schedule
OverlapTable ==
    <<>> \o [i \in 1..NumEvents |->
               <<>> \o [j \in 1..NumEvents |->
                          eventsOverlap(Events[i], Events[j], hostOffset)]]

\* C2: eventsOverlap(a, b) holds exactly when start_a < end_b and
\* start_b < end_a; it gives the same answer for (a, b) and (b, a); an event
\* that ends at instant T never overlaps an event that starts at T.
C2_HalfOpenSymmetric ==
    validation.done =>
        LET S == StartTimes
            E == EndTimes
            overlap == OverlapTable
        IN \A i, j \in 1..NumEvents :
               /\ overlap[i][j] <=> HalfOpenOverlap(S, E, i, j)
               /\ overlap[i][j] <=> overlap[j][i]
               /\ (E[i] # NaN /\ E[i] = S[j]) => ~overlap[i][j]

\* two well-formed events touch at an instant, two others overlap
C2_Witness ==
    /\ validation.done
    /\ LET S == StartTimes
           E == EndTimes
       IN \E i, j \in 1..NumEvents :
              /\ EndsAfterStart(S, E, i)
              /\ EndsAfterStart(S, E, j)
              /\ E[i] = S[j]
              /\ ~eventsOverlap(Events[i], Events[j], hostOffset)
    /\ \E i, j \in 1..NumEvents :
           i # j /\ eventsOverlap(Events[i], Events[j], hostOffset)

\* C3: isValidEventTiming(event) is true iff end_local is strictly after
\* start_local, false for equal instants and for an end before the start;
\* for each event at 0-based index k for which it is false the errors list
\* holds exactly one entry naming position k + 1 and the event's title, and
\* for the other events it holds none.
C3_TimingStrict ==
    validation.done =>
        LET S == StartTimes
            E == EndTimes
        IN \A k \in 0..(NumEvents - 1) :
               LET e == Events[k + 1]
                   valid == isValidEventTiming(e, hostOffset)
               IN /\ valid <=> EndsAfterStart(S, E, k + 1)
                  /\ (S[k + 1] # NaN /\ E[k + 1] # NaN /\ E[k + 1] <= S[k + 1])
                         => ~valid
                  /\ Occurrences(validation.errors,
                                 TimingErrorText(k + 1, e.title))
                         = IF EndsAfterStart(S, E, k + 1) THEN 0 ELSE 1

\* an event of equal instants and an event that ends before it starts have
\* been reported, the second not at the first position
C3_Witness ==
    /\ validation.done
    /\ \E k \in 1..NumEvents :
           StartTimes[k] # NaN /\ StartTimes[k] = EndTimes[k]
    /\ \E k \in 2..NumEvents :
           /\ Less(EndTimes[k], StartTimes[k])
           /\ Occurrences(validation.errors,
                          TimingErrorText(k, Events[k].title)) = 1

\* the k-th smallest element of a finite set of naturals
Nth(S, k) == CHOOSE x \in S : Cardinality({y \in S : y < x}) = k - 1

\* index pairs in the order i ascending, then j ascending
PairBefore(p, q) == p[1] < q[1] \/ (p[1] = q[1] /\ p[2] < q[2])

NthPair(S, k) ==
    CHOOSE p \in S : Cardinality({q \in S : PairBefore(q, p)}) = k - 1

\* the errors list in the order the claim states
OrderedErrors ==
    LET bad == BadTimingIndices(StartTimes, EndTimes)
        pairs == OverlappingPairs(StartTimes, EndTimes)
    IN (IF schedule.timezone = <<>> THEN <<TimezoneRequired>> ELSE <<>>)
       \o [k \in 1..Cardinality(bad) |->
              LET index == Nth(bad, k)
              IN TimingErrorText(index + 1, Events[index + 1].title)]
       \o [k \in 1..Cardinality(pairs) |->
              LET p == NthPair(pairs, k)
              IN OverlapErrorText(Events[p[1] + 1].title,
                                  Events[p[2] + 1].title)]

\* C4: the errors list is ordered: the timezone error first, then the
\* timing errors by ascending event index, then the overlap errors by i
\* ascending and j ascending within the same i, each naming the title of
\* event i before the title of event j.
C4_ErrorOrder == validation.done => validation.errors = OrderedErrors

\* all three kinds of error are present, and the overlapping pairs (0, 3)
\* and (1, 2) are among them: the order by i differs from the order by j
C4_Witness ==
    /\ validation.done
    /\ schedule.timezone = <<>>
    /\ NumEvents >= 4
    /\ BadTimingIndices(StartTimes, EndTimes) # {}
    /\ <<0, 3>> \in OverlappingPairs(StartTimes, EndTimes)
    /\ <<1, 2>> \in OverlappingPairs(StartTimes, EndTimes)
    /\ Events[1].title # Events[4].title

\* the positions of the schedule's events list that a returned pair names
PairSet(pairs) == {{pairs[k][1] + 1, pairs[k][2] + 1} : k \in 1..Len(pairs)}

\* the same positions for the reordered list, mapped back to the schedule's
BackMappedPairSet(pairs, order) ==
    {{order[pairs[k][1] + 1], order[pairs[k][2] + 1]} : k \in 1..Len(pairs)}

\* every pair is (i, j) with 0 <= i < j < n and no pair is listed twice
WellFormedPairs(pairs, n) ==
    /\ \A k \in 1..Len(pairs) :
           /\ pairs[k][1] \in 0..(n - 1)
           /\ pairs[k][2] \in 0..(n - 1)
           /\ pairs[k][1] < pairs[k][2]
    /\ Cardinality(PairSet(pairs)) = Len(pairs)

\* C5: for every events list and every permutation of it,
\* findOverlappingEvents returns the same set of overlapping pairs once the
\* indices are mapped back through the permutation; each unordered pair of
\* distinct positions appears at most once, as (i, j) with i < j, and no
\* pair (i, i) is returned.
C5_PermutationInvariant ==
    found.done =>
        /\ BackMappedPairSet(found.reordered, found.order)
               = PairSet(found.original)
        /\ WellFormedPairs(found.original, NumEvents)
        /\ WellFormedPairs(found.reordered, NumEvents)

\* three events were searched in reversed order and a pair overlaps that is
\* listed at other indices in the reordered list
C5_Witness ==
    /\ found.done
    /\ NumEvents = 3
    /\ found.order = (1 :> 3) @@ (2 :> 2) @@ (3 :> 1)
    /\ found.original # <<>>
    /\ found.original # found.reordered
    /\ Len(found.original) < 3

----------------------------------------------------------------------------
(* Properties of the encoder *)

\* the physical lines of the generated document
DocLines == <<>> \o SplitCRLF(ics.text)

\* the positions of the lines equal to a text
IndicesOf(L, text) == {k \in 1..Len(L) : L[k] = text}

Min(S) == CHOOSE x \in S : \A y \in S : x <= y

\* the first physical line a content line is written as: it ends at the
\* 75th character or before the first line break inside these
FirstPhysical(text) ==
    LET head == Take(text, 75)
    IN IF BreaksOf(head) = {} THEN head
       ELSE SubSeq(head, 1, Min(BreaksOf(head)) - 1)

\* the positions, in order, of the lines of L[from..to] that are no
\* continuation of a folded line
ContentLines(L, from, to) ==
    LET S == {k \in from..to : ~StartsWith(L[k], <<SP>>)}
    IN <<>> \o [m \in 1..Cardinality(S) |-> Nth(S, m)]

\* the unparseable dates of the schedule
Unparseable(text) == NewDate(text, hostOffset) = NaN

\* C6: for every schedule of the Schedule shape (timezone possibly empty,
\* events possibly empty, dates possibly unparseable, out of order or
\* overlapping) validateSchedule returns a result and generateICS returns a
\* document, neither raises; an event whose start or end cannot be parsed
\* is reported by validateSchedule as an error.
C6_NeverRaises ==
    /\ validation.done =>
           /\ ~validation.raised
           /\ \A k \in 1..NumEvents :
                  (Unparseable(Events[k].start_local)
                   \/ Unparseable(Events[k].end_local))
                  => /\ ~validation.isValid
                     /\ Occurrences(validation.errors,
                                    TimingErrorText(k, Events[k].title)) = 1
    /\ ics.done =>
           /\ ~ics.raised
           /\ StartsWith(ics.text, BeginVCalendar)
           /\ EndsWith(ics.text, EndVCalendar)

\* a schedule with an empty timezone and an unparseable start has been
\* validated and encoded
C6_Witness ==
    /\ validation.done
    /\ ics.done
    /\ schedule.timezone = <<>>
    /\ \E k \in 1..NumEvents : Unparseable(Events[k].start_local)

\* the lines of one event block, L[b] being its BEGIN:VEVENT and L[e] its
\* END:VEVENT, for the event ev
BlockInOrder(L, b, e, ev) ==
    LET c == ContentLines(L, b + 1, e - 1)
    IN /\ Len(c) >= 5
       /\ StartsWith(L[c[1]], <<"U", "I", "D", ":">>)
       /\ StartsWith(L[c[2]], <<"D", "T", "S", "T", "A", "M", "P", ":">>)
       /\ StartsWith(L[c[3]], <<"D", "T", "S", "T", "A", "R", "T", ":">>)
       /\ EndsWith(L[c[3]], <<"Z">>)
       /\ StartsWith(L[c[4]], <<"D", "T", "E", "N", "D", ":">>)
       /\ EndsWith(L[c[4]], <<"Z">>)
       /\ L[c[5]] = FirstPhysical(<<"S", "U", "M", "M", "A", "R", "Y", ":">>
                                  \o escapeICSText(ev.title))

\* the document has one block per event, in the events' order, not nested
OneBlockPerEvent(L) ==
    LET B == IndicesOf(L, BeginVEvent)
        E == IndicesOf(L, EndVEvent)
    IN /\ Cardinality(B) = NumEvents
       /\ Cardinality(E) = NumEvents
       /\ \A m \in 1..NumEvents :
              /\ Nth(B, m) < Nth(E, m)
              /\ m < NumEvents => Nth(E, m) < Nth(B, m + 1)
              /\ BlockInOrder(L, Nth(B, m), Nth(E, m), Events[m])

\* C7: generateICS emits exactly one BEGIN:VEVENT ... END:VEVENT block per
\* event of the schedule, in the schedule's event order and never nested,
\* also for invalid timing and overlapping events; every block holds, in
\* this order, the UID, DTSTAMP, DTSTART, DTEND and SUMMARY lines, the
\* DTSTART and DTEND values ending in Z.
C7_OneBlockPerEvent == ics.done => OneBlockPerEvent(DocLines)

\* no line break in the text
NoLineBreak(text) == \A k \in 1..Len(text) : text[k] # CR /\ text[k] # LF

\* one block per event, as stated above, whenever the timezone holds no
\* line break
C7_BlocksWithoutTimezoneBreak ==
    (ics.done /\ NoLineBreak(schedule.timezone)) => OneBlockPerEvent(DocLines)

StatedChunks(l) ==
    LET count == (Len(l) - 75 + 73) \div 74
    IN <<SubSeq(l, 1, 75)>>
       \o [m \in 1..count |->
              <<SP>> \o SubSeq(l, 75 + 74 * (m - 1) + 1,
                               IF 75 + 74 * m < Len(l) THEN 75 + 74 * m
                               ELSE Len(l))]

\* the folded form the claim states
StatedFold(l) == IF Len(l) <= 75 THEN l ELSE Join(StatedChunks(l), CRLF)

\* C9: foldLine returns a line of at most 75 characters unchanged and
\* splits a longer line into a first chunk of exactly 75 characters and
\* chunks of one space plus at most 74 characters of the line, in order,
\* joined by CRLF, none of them empty; generateICS folds every line and
\* joins the lines with CRLF, so no physical line of the document is longer
\* than 75 characters.
C9_FoldShape ==
    /\ folded.done =>
           /\ folded.text = StatedFold(line)
           /\ Len(line) > 75 =>
                  LET chunks == StatedChunks(line)
                  IN /\ Len(chunks[1]) = 75
                     /\ \A m \in 2..Len(chunks) :
                            /\ chunks[m][1] = SP
                            /\ Len(chunks[m]) \in 2..75
    /\ ics.done =>
           LET lines == icsLines(schedule, ics.at, hostOffset)
               L == DocLines
           IN /\ ics.text = Join([k \in 1..Len(lines) |-> StatedFold(lines[k])],
                                 CRLF)
              /\ \A k \in 1..Len(L) : Len(L[k]) <= 75

\* a line of 75 + 74 + 74 + 1 characters has been folded into four chunks
C9_Witness ==
    /\ folded.done
    /\ Len(line) = 224
    /\ NoLineBreak(line)
    /\ Len(SplitCRLF(folded.text)) = 4

\* the positions at which a CRLF followed by a space starts
FoldMarks(text) ==
    {i \in 1..(Len(text) - 2) :
        text[i] = CR /\ text[i + 1] = LF /\ text[i + 2] = SP}

\* the text without every CRLF that a space follows, and without that space
RECURSIVE Unfold(_)
Unfold(text) ==
    IF FoldMarks(text) = {} THEN text
    ELSE LET i == Min(FoldMarks(text))
         IN SubSeq(text, 1, i - 1) \o Unfold(SubSeq(text, i + 3, Len(text)))

----------------------------------------------------------------------------
(* Properties of the escaping *)

Max(S) == CHOOSE x \in S : \A y \in S : x >= y

\* the number of backslashes that stand immediately before position i
BackslashRun(s, i) ==
    (i - 1) - Max({k \in 1..(i - 1) : s[k] # "\\"} \cup {0})

\* read left to right, the character at i is the second of a pair that a
\* backslash starts
IsEscaped(s, i) == BackslashRun(s, i) % 2 = 1

\* the backslash at i starts a pair
IsEscaping(s, i) == s[i] = "\\" /\ ~IsEscaped(s, i)

\* the unescape of the claim, read left to right: a backslash and the
\* character after it are read as that character, or as a newline when
\* that character is the letter n
Unescape(s) ==
    LET kept == SelectSeq([i \in 1..Len(s) |-> i],
                          LAMBDA i : ~IsEscaping(s, i))
    IN [k \in 1..Len(kept) |->
           IF IsEscaped(s, kept[k]) /\ s[kept[k]] = "n" THEN LF
           ELSE s[kept[k]]]

\* what the claim states one character is written as
StatedCode(c) ==
    IF c = "\\" THEN <<"\\", "\\">>
    ELSE IF c = ";" THEN <<"\\", ";">>
    ELSE IF c = "," THEN <<"\\", ",">>
    ELSE IF c = LF THEN <<"\\", "n">>
    ELSE <<c>>

RECURSIVE StatedEscape(_)
StatedEscape(s) ==
    IF s = <<>> THEN <<>> ELSE StatedCode(Head(s)) \o StatedEscape(Tail(s))

\* C11: escapeICSText replaces backslash, then semicolon, then comma, then
\* newline, so every character is written once as its own code; unescaping
\* the escaped text left to right recovers the original text, and two
\* different texts never escape to the same value.
C11_EscapeInjective ==
    escaped.done =>
        /\ escaped.value = StatedEscape(plainText)
        /\ Unescape(escaped.value) = plainText
        /\ Unescape(escaped.otherValue) = otherText
        /\ plainText # otherText => escaped.value # escaped.otherValue

\* a backslash followed by the letter n and a newline have been escaped:
\* the two values differ
C11_Witness ==
    /\ escaped.done
    /\ plainText = <<"\\", "n">>
    /\ otherText = <<LF>>
    /\ escaped.value = <<"\\", "\\", "n">>
    /\ escaped.otherValue = <<"\\", "n">>

----------------------------------------------------------------------------
(* Properties of the event blocks *)

\* the content lines of the generated document: the physical lines with the
\* folding undone
UnfoldedLines == <<>> \o SplitCRLF(Unfold(ics.text))

SummaryPrefix == <<"S", "U", "M", "M", "A", "R", "Y", ":">>

DescriptionPrefix ==
    <<"D", "E", "S", "C", "R", "I", "P", "T", "I", "O", "N", ":">>

LocationPrefix == <<"L", "O", "C", "A", "T", "I", "O", "N", ":">>

\* the values of the lines of the m-th event block that start with a prefix
BlockValues(L, m, prefix) ==
    LET b == Nth(IndicesOf(L, BeginVEvent), m)
        e == Nth(IndicesOf(L, EndVEvent), m)
    IN {Drop(L[k], Len(prefix)) :
            k \in {j \in (b + 1)..(e - 1) : StartsWith(L[j], prefix)}}

\* every semicolon and comma of the value is the second character of a pair
\* that a backslash starts, and every backslash belongs to such a pair
WellEscaped(v) ==
    \A i \in 1..Len(v) :
        /\ v[i] \in {";", ","} => IsEscaped(v, i)
        /\ IsEscaping(v, i) =>
               i < Len(v) /\ v[i + 1] \in {"\\", ";", ",", "n"}

\* a value emitted for a source text: no raw newline, the reserved
\* characters of the source escaped
EmittedFor(v, source) ==
    /\ \A i \in 1..Len(v) : v[i] # LF
    /\ WellEscaped(v)
    /\ Unescape(v) = source

\* C12: for every title, description and location the value emitted on the
\* SUMMARY, DESCRIPTION or LOCATION line holds no raw newline, and every
\* semicolon, comma and backslash of the source text appears in it preceded
\* by an escaping backslash; no field value starts a new line: the document
\* read back has exactly the lines that were written.
C12_FieldsEscaped ==
    ics.done =>
        LET L == UnfoldedLines
        IN /\ L = icsLines(schedule, ics.at, hostOffset)
           /\ Cardinality(IndicesOf(L, BeginVEvent)) = NumEvents
           /\ Cardinality(IndicesOf(L, EndVEvent)) = NumEvents
           /\ \A m \in 1..NumEvents :
                  /\ \E v \in BlockValues(L, m, SummaryPrefix) :
                         EmittedFor(v, Events[m].title)
                  /\ \A v \in BlockValues(L, m, DescriptionPrefix) :
                         EmittedFor(v, Events[m].description.value)
                  /\ \A v \in BlockValues(L, m, LocationPrefix) :
                         EmittedFor(v, Events[m].location.value)
                  /\ Cardinality(BlockValues(L, m, SummaryPrefix)) = 1

\* an event whose title holds a line break and whose location holds a
\* semicolon and a comma has been encoded
C12_Witness ==
    /\ ics.done
    /\ \E m \in 1..NumEvents :
           /\ BreaksOf(Events[m].title) # {}
           /\ BlockValues(UnfoldedLines, m, SummaryPrefix) # {}
    /\ \E m \in 1..NumEvents :
           /\ \E i \in 1..Len(Events[m].location.value) :
                  Events[m].location.value[i] = ";"
           /\ BlockValues(UnfoldedLines, m, LocationPrefix) # {}

\* the m-th block has a line that starts with the prefix
HasLine(L, m, prefix) == BlockValues(L, m, prefix) # {}

\* C14 as stated: an event's block holds a DESCRIPTION line iff the event
\* has its description field present, and a LOCATION line iff it has its
\* location field present, also when the field is the empty string.
C14_LinesIffPresent ==
    ics.done =>
        \A m \in 1..NumEvents :
            /\ HasLine(UnfoldedLines, m, DescriptionPrefix)
                   <=> Events[m].description.present
            /\ HasLine(UnfoldedLines, m, LocationPrefix)
                   <=> Events[m].location.present

\* C14, amended: the block holds a DESCRIPTION line iff the description is
\* present and not the empty string, and a LOCATION line iff the location
\* is present and not the empty string; an event whose field is the empty
\* string gets no line for it.
C14_LinesIffNonEmpty ==
    ics.done =>
        LET L == UnfoldedLines
        IN \A m \in 1..NumEvents :
               /\ HasLine(L, m, DescriptionPrefix)
                      <=> (Events[m].description.present
                           /\ Events[m].description.value # <<>>)
               /\ HasLine(L, m, LocationPrefix)
                      <=> (Events[m].location.present
                           /\ Events[m].location.value # <<>>)
               /\ Cardinality(BlockValues(L, m, DescriptionPrefix)) <= 1
               /\ Cardinality(BlockValues(L, m, LocationPrefix)) <= 1

\* two events have been encoded: one with a description and the empty
\* string as its location, one with neither field
C14_Witness ==
    /\ ics.done
    /\ NumEvents = 2
    /\ \E m \in 1..NumEvents :
           /\ Events[m].description.present
           /\ Events[m].description.value # <<>>
           /\ Events[m].location = Present(<<>>)
           /\ HasLine(UnfoldedLines, m, DescriptionPrefix)
           /\ ~HasLine(UnfoldedLines, m, LocationPrefix)
    /\ \E m \in 1..NumEvents : ~Events[m].description.present

----------------------------------------------------------------------------
(* Properties of the UIDs *)

UidSuffix ==
    <<"@", "c", "h", "a", "t", "-", "t", "o", "-", "c", "a", "l", "e", "n",
      "d", "a", "r">>

\* <millisecond timestamp>-<letters and digits>@chat-to-calendar
HasUidShape(uid) ==
    /\ Len(uid) >= 14 + Len(UidSuffix)
    /\ \A i \in 1..13 : IsDigit(uid[i])
    /\ uid[14] = "-"
    /\ EndsWith(uid, UidSuffix)
    /\ \A i \in 15..(Len(uid) - Len(UidSuffix)) : IsAlnum(uid[i])

\* C13: two different events never receive the same UID: whatever the
\* readings of the clock, the UIDs of events at different positions, or of
\* events that differ in title or start time, are distinct; each UID has
\* the shape <timestamp>-<letters and digits>@chat-to-calendar.
C13_UidsDistinct ==
    (uids[1].done /\ uids[2].done) =>
        /\ HasUidShape(uids[1].value)
        /\ HasUidShape(uids[2].value)
        /\ (\/ uidArgs[1].index # uidArgs[2].index
            \/ uidArgs[1].event.title # uidArgs[2].event.title
            \/ uidArgs[1].event.start_local # uidArgs[2].event.start_local)
               => uids[1].value # uids[2].value

\* what holds of the UIDs: the shape, and distinct UIDs for calls at
\* different readings of the clock or for different positions below ten
C13_ShapeAndPositions ==
    (uids[1].done /\ uids[2].done) =>
        /\ HasUidShape(uids[1].value)
        /\ HasUidShape(uids[2].value)
        /\ (uids[1].at # uids[2].at \/ uidArgs[1].index # uidArgs[2].index)
               => uids[1].value # uids[2].value

----------------------------------------------------------------------------
(* Properties of the links *)

\* the text split at every occurrence of a character
SplitOn(s, c) ==
    LET marks == {i \in 1..Len(s) : s[i] = c}
        n == Cardinality(marks)
        at[k \in 0..(n + 1)] ==
            IF k = 0 THEN 0
            ELSE IF k = n + 1 THEN Len(s) + 1
            ELSE Nth(marks, k)
    IN [k \in 1..(n + 1) |-> SubSeq(s, at[k - 1] + 1, at[k] - 1)]

\* the parameters of a link as written: the pairs name=value after the
\* question mark, in order
WrittenParams(url) ==
    LET query == Drop(url, Len(LinkPrefix))
        pairs == IF query = <<>> THEN <<>> ELSE SplitOn(query, "&")
    IN <<>> \o [k \in 1..Len(pairs) |->
                   LET eq == Min({i \in 1..Len(pairs[k]) : pairs[k][i] = "="}
                                 \cup {Len(pairs[k]) + 1})
                   IN <<Take(pairs[k], eq - 1), Drop(pairs[k], eq)>>]

ParamNames(url) ==
    LET params == WrittenParams(url)
    IN [k \in 1..Len(params) |-> params[k][1]]

HasParam(url, name) ==
    \E k \in 1..Len(WrittenParams(url)) : WrittenParams(url)[k][1] = name

\* the value of the first parameter of that name
ParamValue(url, name) ==
    LET params == WrittenParams(url)
    IN params[Min({k \in 1..Len(params) : params[k][1] = name})][2]

\* a required field that is missing or that cannot be parsed
Missing(v) == v = Undefined

Malformed(v) == NewLocalDate(v, hostZone) = NaN

\* C15: generateAppleCalendarLink never raises and, for an event that is
\* malformed or lacks a required field (missing or empty title, missing or
\* unparseable start_local or end_local), returns a URL in which the
\* corresponding parameter (title, starts, ends) has an empty value.
C15_EmptyForMalformed ==
    links.done =>
        /\ ~links.first.raised
        /\ StartsWith(links.first.url, LinkPrefix)
        /\ (Missing(linkEvent.title) \/ linkEvent.title = <<>>)
               => ParamValue(links.first.url, TitleName) = <<>>
        /\ Malformed(linkEvent.start_local)
               => ParamValue(links.first.url, StartsName) = <<>>
        /\ Malformed(linkEvent.end_local)
               => ParamValue(links.first.url, EndsName) = <<>>

NaNDate ==
    <<"N", "a", "N", "N", "a", "N", "N", "a", "N", "T", "N", "a", "N", "N",
      "a", "N", "0", "0">>

\* what holds in the place of C15: no call raises; an empty title gives an
\* empty value, a missing one the text undefined, and a missing or
\* unparseable date the text NaNNaNNaNTNaNNaN00
C15_TextForMalformed ==
    links.done =>
        /\ ~links.first.raised
        /\ ~links.second.raised
        /\ linkEvent.title = <<>>
               => ParamValue(links.first.url, TitleName) = <<>>
        /\ Missing(linkEvent.title)
               => ParamValue(links.first.url, TitleName) = ToText(Undefined)
        /\ Malformed(linkEvent.start_local)
               => ParamValue(links.first.url, StartsName) = NaNDate
        /\ Malformed(linkEvent.end_local)
               => ParamValue(links.first.url, EndsName) = NaNDate

\* the digits of a local date-time in the compact form YYYYMMDDTHHMMSS,
\* seconds 00
Compact(s) ==
    SubSeq(s, 1, 4) \o SubSeq(s, 6, 7) \o SubSeq(s, 9, 10) \o <<"T">>
    \o SubSeq(s, 12, 13) \o SubSeq(s, 15, 16) \o <<"0", "0">>

WellFormed(v) == v # Undefined /\ IsLocalDateTime(v)

\* C16: for every event with well-formed start_local and end_local the
\* starts and ends parameters are the event's own wall-clock digits in the
\* form YYYYMMDDTHHMMSS with seconds 00, no UTC conversion and no trailing
\* Z; title, starts and ends are always present, in that order.
C16_WallClockDigits ==
    links.done =>
        /\ Len(ParamNames(links.first.url)) >= 3
        /\ SubSeq(ParamNames(links.first.url), 1, 3)
               = <<TitleName, StartsName, EndsName>>
        /\ (WellFormed(linkEvent.start_local)
            /\ WellFormed(linkEvent.end_local))
               => /\ ParamValue(links.first.url, StartsName)
                         = Compact(linkEvent.start_local)
                  /\ ParamValue(links.first.url, EndsName)
                         = Compact(linkEvent.end_local)

\* what holds in the place of C16: the digits are the event's own on a host
\* that keeps no daylight saving time, and on any host for a reading that
\* its clocks do not skip
C16_WallClockOutsideGap ==
    links.done =>
        /\ SubSeq(ParamNames(links.first.url), 1, 3)
               = <<TitleName, StartsName, EndsName>>
        /\ (WellFormed(linkEvent.start_local)
            /\ (~hostZone.dst \/ linkEvent.start_local # GapTime))
               => ParamValue(links.first.url, StartsName)
                      = Compact(linkEvent.start_local)
        /\ WellFormed(linkEvent.end_local)
               => ParamValue(links.first.url, EndsName)
                      = Compact(linkEvent.end_local)

\* C17 as stated: the link holds a details parameter iff the event's
\* description is present and a location parameter iff its location is
\* present; the timezone argument is not embedded: two calls with the same
\* event and different timezone strings return the same URL.
C17_OptionalIffPresent ==
    links.done =>
        /\ HasParam(links.first.url, DetailsName)
               <=> linkEvent.description.present
        /\ HasParam(links.first.url, LocationName)
               <=> linkEvent.location.present
        /\ links.first.url = links.second.url

\* C17, amended: the link holds a details parameter iff the description is
\* present and not the empty string, and a location parameter iff the
\* location is present and not the empty string; two calls with the same
\* event and different timezone strings return the same URL.
C17_OptionalIffNonEmpty ==
    links.done =>
        /\ HasParam(links.first.url, DetailsName)
               <=> (linkEvent.description.present
                    /\ linkEvent.description.value # <<>>)
        /\ HasParam(links.first.url, LocationName)
               <=> (linkEvent.location.present
                    /\ linkEvent.location.value # <<>>)
        /\ Len(ParamNames(links.first.url))
               = 3 + (IF HasParam(links.first.url, DetailsName) THEN 1 ELSE 0)
                   + (IF HasParam(links.first.url, LocationName) THEN 1 ELSE 0)
        /\ links.first.url = links.second.url

\* links have been made with two different timezone arguments for an event
\* with a description and the empty string as its location
C17_Witness ==
    /\ links.done
    /\ linkTimezones[1] # linkTimezones[2]
    /\ linkTimezones[1] # <<>>
    /\ linkTimezones[2] # <<>>
    /\ linkEvent.description.present
    /\ linkEvent.description.value # <<>>
    /\ linkEvent.location = Present(<<>>)
    /\ HasParam(links.first.url, DetailsName)
    /\ ~HasParam(links.second.url, LocationName)

----------------------------------------------------------------------------
(* Properties of repeated invocations *)

\* the content lines of a document
ContentOf(doc) == <<>> \o SplitCRLF(Unfold(doc))

\* a line that carries the time of the call
IsStampLine(l) ==
    \/ StartsWith(l, <<"U", "I", "D", ":">>)
    \/ StartsWith(l, <<"D", "T", "S", "T", "A", "M", "P", ":">>)

\* two documents that are equal but for the UID and DTSTAMP lines
EqualButStamps(doc1, doc2) ==
    LET L1 == ContentOf(doc1)
        L2 == ContentOf(doc2)
    IN /\ Len(L1) = Len(L2)
       /\ \A k \in 1..Len(L1) :
              L1[k] # L2[k] => IsStampLine(L1[k]) /\ IsStampLine(L2[k])

\* C18 as stated: validateSchedule, generateICS and
\* generateAppleCalendarLink are deterministic functions of their
\* arguments: two invocations with equal arguments return equal results,
\* whatever happens between them.
C18_Deterministic ==
    (calls[1].done /\ calls[2].done) =>
        /\ calls[2].validation = calls[1].validation
        /\ calls[2].ics = calls[1].ics
        /\ calls[2].links = calls[1].links

\* C18, amended: validateSchedule and generateAppleCalendarLink return
\* equal results for equal arguments whatever happens between the
\* invocations; generateICS reads the clock: its two documents are equal
\* but for the UID and DTSTAMP lines of the events, equal when the clock
\* has not advanced and different when it has and there is an event.
C18_DeterministicButStamps ==
    (calls[1].done /\ calls[2].done) =>
        /\ calls[2].validation = calls[1].validation
        /\ calls[2].links = calls[1].links
        /\ calls[2].ics.raised = calls[1].ics.raised
        /\ EqualButStamps(calls[1].ics.text, calls[2].ics.text)
        /\ calls[1].at = calls[2].at => calls[2].ics = calls[1].ics
        /\ (calls[1].at # calls[2].at /\ NumEvents > 0)
               => calls[2].ics.text # calls[1].ics.text

\* a schedule with an event has been validated, encoded and linked twice,
\* the clock advancing and another document being generated in between
C18_Witness ==
    /\ calls[1].done
    /\ calls[2].done
    /\ NumEvents = 1
    /\ calls[1].at < ics.at
    /\ ics.at < calls[2].at
    /\ ics.done
    /\ ~calls[1].validation.isValid
    /\ calls[1].ics.text # calls[2].ics.text

----------------------------------------------------------------------------
(* Properties of the POST handler and of the page *)

\* the completion API was called and replied
Answered == apiOutcome # Null /\ ~apiOutcome.throws

\* the completion API was called and replied the JSON text of a schedule
Replied ==
    /\ Answered
    /\ apiOutcome.content.kind = "json"
    /\ apiOutcome.content.value # Null
    /\ apiOutcome.content.value.timezone # Undefined

\* the schedule that the reply is parsed into
RepliedSchedule == apiOutcome.content.value

\* every event of the list ends after it starts and no two overlap
ConflictFree(events) ==
    LET S == <<>> \o [k \in 1..Len(events) |->
                         NewDate(events[k].start_local, hostOffset)]
        E == <<>> \o [k \in 1..Len(events) |->
                         NewDate(events[k].end_local, hostOffset)]
    IN /\ \A k \in 1..Len(events) : EndsAfterStart(S, E, k)
       /\ \A i, j \in 1..Len(events) :
              i < j => ~HalfOpenOverlap(S, E, i, j)

\* C19: when the reply of the completion API parses into a schedule, the
\* POST handler answers with status 200 and a body that holds the timezone
\* and the events list of that schedule unchanged and no error; when
\* validateSchedule reports the schedule invalid the body also holds a
\* warnings field equal to the validator's errors list, and the schedule
\* is invalid whenever it is not conflict-free or has no timezone; when
\* the schedule is valid the body has no warnings field.
C19_InvalidReturnedWithWarnings ==
    (handled # Null /\ Replied) =>
        LET s == RepliedSchedule
            result == validateSchedule(s, hostOffset)
        IN /\ handled.status = 200
           /\ handled.validated
           /\ handled.body.error = Absent
           /\ handled.body.timezone = Present(s.timezone)
           /\ handled.body.events = Present(s.events)
           /\ ~result.isValid =>
                  /\ handled.body.warnings = Present(result.errors)
                  /\ result.errors # <<>>
           /\ result.isValid => handled.body.warnings = Absent
           /\ (s.timezone = <<>> \/ ~ConflictFree(s.events)) =>
                  handled.body.warnings.present

\* an invalid schedule of two overlapping events and no timezone has been
\* answered with both events and two warnings
C19_Witness ==
    /\ handled # Null
    /\ Replied
    /\ RepliedSchedule.timezone = <<>>
    /\ Len(RepliedSchedule.events) = 2
    /\ ~ConflictFree(RepliedSchedule.events)
    /\ handled.status = 200
    /\ handled.body.warnings.present
    /\ Len(handled.body.warnings.value) = 2
    /\ handled.body.events.value = RepliedSchedule.events

\* C20: the application prevents overlaps: every schedule that the POST
\* handler returns in a success response, and that the page then shows and
\* exports, is conflict-free: no two of its events overlap and every event
\* ends after it starts.
C20_ConflictFree ==
    /\ (handled # Null /\ IsOk(handled.status)) =>
           ConflictFree(handled.body.events.value)
    /\ ui.schedule # Null => ConflictFree(ui.schedule.events.value)

\* the page shows a schedule of two overlapping events and has exported it
C20_Exported ==
    /\ ui.schedule # Null
    /\ ics.done
    /\ Len(ui.schedule.events.value) = 2
    /\ \E i, j \in 1..2 :
          /\ i < j
          /\ eventsOverlap(ui.schedule.events.value[i],
                           ui.schedule.events.value[j], hostOffset)

\* the response is a failure that can be told from a schedule: status 500,
\* an error, neither timezone nor events
IsFailure(response) ==
    /\ response.status = 500
    /\ response.body.error.present
    /\ response.body.error.value # <<>>
    /\ ~response.body.timezone.present
    /\ ~response.body.events.present

\* the page has sent its request and has handled the response
PageDone ==
    /\ handled # Null
    /\ ~ui.loading
    /\ ui.message = request.message

\* the reply has no content, or its content is no JSON text
NoJsonText ==
    Answered /\ apiOutcome.content.kind \in {"none", "empty", "text"}

\* the reply is the JSON text of a value that is no schedule: null, or an
\* object without timezone
NoSchedule ==
    /\ Answered
    /\ apiOutcome.content.kind = "json"
    /\ \/ apiOutcome.content.value = Null
       \/ apiOutcome.content.value.timezone = Undefined

\* C21, as claimed: when the reply has no content, or content that is
\* not a parseable schedule, the handler answers 500 with an error and
\* neither timezone nor events, validateSchedule is not invoked on the
\* reply, and the page ends with schedule = null and an error.
C21_NoScheduleIsFailure ==
    (handled # Null /\ (NoJsonText \/ NoSchedule)) =>
        /\ IsFailure(handled)
        /\ ~handled.validated
        /\ PageDone => (ui.schedule = Null /\ ui.error # Null)

\* C21, amended: when the reply has no content, or content that is no
\* JSON text, the handler answers 500 with an error and neither timezone
\* nor events, validateSchedule is not invoked, and the page ends with
\* schedule = null and an error.  A reply of null is answered 500 too, by
\* the catch block, after validateSchedule was invoked on it and raised; a
\* reply that is an object with an events list and no timezone is answered
\* 200 with its events and a warnings field, and the page shows it.
C21_UnparseableIsFailure ==
    /\ (handled # Null /\ NoJsonText) =>
           /\ IsFailure(handled)
           /\ ~handled.validated
           /\ PageDone => (ui.schedule = Null /\ ui.error # Null)
    /\ (handled # Null /\ NoSchedule) =>
           IF apiOutcome.content.value = Null
           THEN /\ IsFailure(handled)
                /\ handled.validated
                /\ PageDone => (ui.schedule = Null /\ ui.error # Null)
           ELSE /\ handled.status = 200
                /\ handled.validated
                /\ ~handled.body.timezone.present
                /\ handled.body.events =
                       Present(apiOutcome.content.value.events)
                /\ handled.body.warnings.present
                /\ PageDone => (ui.schedule = handled.body
                                /\ ui.error = Null)

\* the page has handled the response to a reply that is no JSON text
C21_Witness ==
    /\ PageDone
    /\ Answered
    /\ apiOutcome.content.kind = "text"
    /\ handled.body.error = Present(ParseFailed)
    /\ ui.error = ParseFailed
    /\ ui.schedule = Null

\* the message of the request is a text that is not blank
GoodMessage ==
    IF IsText(request.message) THEN Len(Trim(request.message)) > 0
    ELSE FALSE

\* the handler calls the completion API at most once, and only for a
\* good message with the key configured; without the key it answers 500
CallsAtMostOnce ==
    /\ handled.apiCalls \in {0, 1}
    /\ handled.apiCalls = 1 => (request.parses /\ GoodMessage /\ apiKey)
    /\ (apiOutcome # Null /\ apiOutcome.throws) => handled.apiCalls = 1
    /\ (request.parses /\ GoodMessage /\ ~apiKey) =>
           (handled.status = 500 /\ handled.apiCalls = 0)

\* C22, as claimed: each request makes at most one call of the
\* completion API, after the message and the key were checked; a missing,
\* non-string or blank message is answered 400 and a missing key 500,
\* both without a call.
C22_OneCallAfterChecks ==
    handled # Null =>
        /\ CallsAtMostOnce
        /\ ~GoodMessage => (handled.status = 400 /\ handled.apiCalls = 0)

\* C22, amended: each request makes at most one call of the completion
\* API, also when the call fails with 401 or 429, and only after the
\* message and the key were checked; in a body that is read as an object,
\* a missing, non-string or blank message is answered 400, and a missing
\* key 500, both without a call; a body that cannot be read (no JSON, or
\* null) is answered 500 by the catch block, without a call.
C22_OneCallAfterChecksOfReadBody ==
    handled # Null =>
        /\ CallsAtMostOnce
        /\ (request.parses /\ ~GoodMessage) =>
               (handled.status = 400 /\ handled.apiCalls = 0)
        /\ ~request.parses =>
               (handled.status = 500 /\ handled.apiCalls = 0)

\* the one call has failed with status 429 and was not repeated
C22_Witness ==
    /\ handled # Null
    /\ apiOutcome # Null
    /\ apiOutcome.throws
    /\ apiOutcome.error.status = 429
    /\ handled.status = 429
    /\ handled.apiCalls = 1

----------------------------------------------------------------------------
(* Properties of the Copy Link buttons *)

\* C23: the Copied! indicator of a copy is cleared only by the timer that
\* this copy started: the timer of an earlier copy never sets copiedIndex
\* to null while it shows a later copy; and copiedIndex is null once all
\* timers have fired.
C23_ClearedByOwnTimer ==
    /\ copyLog.clearedShown \in {0, copyLog.clearedBy}
    /\ timers = <<>> => copiedIndex = Null

\* copiedIndex is null once all timers have fired, and shows the event of
\* the latest copy as long as no timer has fired since
C23_NullOnceAllFired ==
    /\ timers = <<>> => copiedIndex = Null
    /\ copiedIndex # Null =>
           (timers # <<>> /\ timers[Len(timers)] = copyLog.shownBy)

\* the timer of the first copy has cleared the indicator of the second
C23_StaleTimer ==
    /\ copyLog.clearedBy = 1
    /\ copyLog.clearedShown = 2
    /\ copiedIndex = Null
    /\ timers = <<2>>

====
